---- MODULE Spec2Model ----
(***************************************************************************)
(* Pocket Billiards: the ball physics (src/physics.ts), the Redux store    *)
(* slices it works on (ballSlice, physicsSlice, tableSlice), the           *)
(* PhysicsEngine that steps the store and runPhysicsSimulation, the batch  *)
(* driver the unit tests call.                                             *)
(*                                                                         *)
(* Numbers.  The program computes in IEEE doubles.  Here a number is an    *)
(* integer count of 1/Scale table units (fixed point): 11.25 is 450,       *)
(* 1.0 is 40, 0.607 * 25 is 607.  Sums, differences and comparisons are    *)
(* exact; a product with a fraction is rounded to the nearest grid value   *)
(* (RoundDiv), as a double product is rounded to the nearest double.       *)
(***************************************************************************)
EXTENDS Integers, Sequences, FiniteSets, TLC

VARIABLES
    balls,          \* store: state.balls.balls
    dimensions,     \* store: state.table.dimensions
    isRunning,      \* store: state.physics.isRunning
    steps,          \* number of PhysicsEngine.step() calls made so far
    simPc,          \* runPhysicsSimulation: "idle", "loop" or "done"
    simState,       \* runPhysicsSimulation: the argument `state`
    maxIterations,  \* runPhysicsSimulation: the argument `maxIterations`
    simBalls,       \* runPhysicsSimulation: the local `balls`
    pocketedBalls,  \* runPhysicsSimulation: the local `pocketedBalls`
    iterations,     \* runPhysicsSimulation: the local `iterations`
    travelled,      \* history: the length of the path of each ball of the run so far
    trace,          \* history: the calls the tick that produced this state made, per ball
    call,           \* a direct call of one physics function: arguments and result
    accumulatedTime,   \* store: state.physics.accumulatedTime
    animationFrameId,  \* PhysicsEngine.animationFrameId, 0 for null
    frames,         \* the requestAnimationFrame callbacks that are pending, by id
    observed,       \* history: what the store subscriber read during the last handler
    started,        \* history: physics.isRunning at each start() of the last handler
    ticked,         \* history: the passes over the balls step() made in the last handler
    stopped,        \* history: stop() was called and no velocity was set since
    transform,      \* the TableTransform object of the renderer, its fields
    snapshotMutated \* history: a step() has returned with the list of balls it read
                    \* from the store changed

storeVars == <<balls, dimensions, isRunning, steps>>
simVars == <<simPc, simState, maxIterations, simBalls, pocketedBalls, iterations,
            travelled>>
appVars == <<accumulatedTime, animationFrameId, frames, observed, started, ticked,
            stopped>>
vars == <<balls, dimensions, isRunning, steps, simPc, simState, maxIterations,
          simBalls, pocketedBalls, iterations, travelled, trace, call, accumulatedTime,
          animationFrameId, frames, observed, started, ticked, stopped, transform,
          snapshotMutated>>

----------------------------------------------------------------------------
(* Bounds of the exploration *)

MaxSteps == 2        \* PhysicsEngine.step() calls explored
MaxIter == 3         \* largest maxIterations passed to runPhysicsSimulation
MaxBalls == 2        \* longest ball list passed to runPhysicsSimulation

----------------------------------------------------------------------------
(* Fixed-point numbers *)

Scale == 4 * 10      \* grid values per table unit: 1/4 holds 11.25, 1/40 holds 15.175

\* n / d rounded to the nearest integer, halves away from zero
RoundDiv(n, d) ==
    IF n >= 0 THEN (2 * n + d) \div (2 * d) ELSE 0 - ((2 * (0 - n) + d) \div (2 * d))

Abs(n) == IF n >= 0 THEN n ELSE 0 - n

Vec(x, y) == [x |-> x, y |-> y]

Zero == Vec(0, 0)

RECURSIVE CeilSqrtIn(_, _, _)
CeilSqrtIn(n, lo, hi) ==
    IF lo >= hi THEN lo
    ELSE LET mid == (lo + hi) \div 2
         IN  IF mid * mid >= n THEN CeilSqrtIn(n, lo, mid) ELSE CeilSqrtIn(n, mid + 1, hi)

\* the square root of n, rounded up to a whole number
CeilSqrt(n) == CeilSqrtIn(n, 0, 46340)

\* the distance between two points, rounded up to a whole grid value
Length(p, q) == CeilSqrt((q.x - p.x) * (q.x - p.x) + (q.y - p.y) * (q.y - p.y))

----------------------------------------------------------------------------
(* src/physics.ts *)

PHYSICS_FPS == 60
FRICTION_COEFFICIENT == 2
VELOCITY_THRESHOLD == 1 * Scale
MAX_SHOT_VELOCITY == 500 * Scale

\* the bug of a timestep twice as long as the decay assumes: a shot rolls twice as far
TimesDt_TwoFrames(v) == RoundDiv(2 * v, PHYSICS_FPS)

\* v * PHYSICS_TIMESTEP, with PHYSICS_TIMESTEP = 1 / PHYSICS_FPS
TimesDt(v) == RoundDiv(v, PHYSICS_FPS)

\* the bug of a friction of the wrong sign: the ball gains speed
TimesDecayFactor_Gains(v) ==
    RoundDiv(v * (PHYSICS_FPS + FRICTION_COEFFICIENT), PHYSICS_FPS)

\* the bug of a friction a hundred times weaker: a shot rolls on for minutes
TimesDecayFactor_WeakFriction(v) ==
    RoundDiv(v * (100 * PHYSICS_FPS - FRICTION_COEFFICIENT), 100 * PHYSICS_FPS)

\* v * decayFactor, with decayFactor = 1 - FRICTION_COEFFICIENT * dt
TimesDecayFactor(v) ==
    RoundDiv(v * (PHYSICS_FPS - FRICTION_COEFFICIENT), PHYSICS_FPS)

\* speed < VELOCITY_THRESHOLD, with speed = sqrt(vx^2 + vy^2): both sides squared
BelowThreshold(velocity) ==
    velocity.x * velocity.x + velocity.y * velocity.y
        < VELOCITY_THRESHOLD * VELOCITY_THRESHOLD

\* the bug of testing the threshold after the move: a ball below it still moves
UpdateBallPhysics_StopAfterMove(ball) ==
    [ball EXCEPT
        !.position = Vec(ball.position.x + TimesDt(ball.velocity.x),
                         ball.position.y + TimesDt(ball.velocity.y)),
        !.velocity = IF BelowThreshold(ball.velocity)
                     THEN Zero
                     ELSE Vec(TimesDecayFactor(ball.velocity.x),
                              TimesDecayFactor(ball.velocity.y))]

\* the bug of applying friction first: the move uses the velocity of the end of the step
UpdateBallPhysics_DecayFirst(ball) ==
    IF BelowThreshold(ball.velocity)
    THEN [ball EXCEPT !.velocity = Zero]
    ELSE LET w == Vec(TimesDecayFactor(ball.velocity.x),
                      TimesDecayFactor(ball.velocity.y))
         IN  [ball EXCEPT
                !.position = Vec(ball.position.x + TimesDt(w.x),
                                 ball.position.y + TimesDt(w.y)),
                !.velocity = w]

\* the bug of leaving out the stopping rule: friction alone never reaches 0
UpdateBallPhysics_NeverSnaps(ball) ==
    [ball EXCEPT
        !.position = Vec(ball.position.x + TimesDt(ball.velocity.x),
                         ball.position.y + TimesDt(ball.velocity.y)),
        !.velocity = Vec(TimesDecayFactor(ball.velocity.x),
                         TimesDecayFactor(ball.velocity.y))]

UpdateBallPhysics(ball) ==
    IF BelowThreshold(ball.velocity)
    THEN [ball EXCEPT !.velocity = Zero]
    ELSE [ball EXCEPT
            !.position = Vec(ball.position.x + TimesDt(ball.velocity.x),
                             ball.position.y + TimesDt(ball.velocity.y)),
            !.velocity = Vec(TimesDecayFactor(ball.velocity.x),
                             TimesDecayFactor(ball.velocity.y))]

\* the bug of a strict comparison: the boundary does not capture
CheckPocketCollision_Strict(ball, pocket) ==
    LET dx == ball.position.x - pocket.x
        dy == ball.position.y - pocket.y
    IN  dx * dx + dy * dy < pocket.radius * pocket.radius

CheckPocketCollision(ball, pocket) ==
    LET dx == ball.position.x - pocket.x
        dy == ball.position.y - pocket.y
        distanceSquared == dx * dx + dy * dy
        pocketRadiusSquared == pocket.radius * pocket.radius
    IN  distanceSquared <= pocketRadiusSquared

\* the bug of a rail that turns the ball round where it is, beyond the rail
RailAxis_TurnsOnly(p, v, min, max) ==
    IF p < min THEN <<p, 0 - v>>
    ELSE IF p > max THEN <<p, 0 - v>>
    ELSE <<p, v>>

\* one axis of handleRailCollisions: <<position, velocity>> after the rail test
RailAxis(p, v, min, max) ==
    IF p < min THEN <<min, 0 - v>>
    ELSE IF p > max THEN <<max, 0 - v>>
    ELSE <<p, v>>

\* the bug of a rail that kills the motion: a ball that hit a rail stops dead
HandleRailCollisions_Sticks(ball, tableWidth, tableHeight) ==
    LET minX == ball.radius
        maxX == tableWidth - ball.radius
        minY == ball.radius
        maxY == tableHeight - ball.radius
        ax == RailAxis(ball.position.x, ball.velocity.x, minX, maxX)
        ay == RailAxis(ball.position.y, ball.velocity.y, minY, maxY)
    IN  [ball EXCEPT !.position = Vec(ax[1], ay[1]),
                     !.velocity = IF Vec(ax[1], ay[1]) # ball.position
                                  THEN Zero
                                  ELSE ball.velocity]

\* the bug of one else-if chain over both axes: a ball that hit a side rail is not
\* tested against the top and bottom rails
HandleRailCollisions_OneChain(ball, tableWidth, tableHeight) ==
    LET minX == ball.radius
        maxX == tableWidth - ball.radius
        minY == ball.radius
        maxY == tableHeight - ball.radius
        ax == RailAxis(ball.position.x, ball.velocity.x, minX, maxX)
        ay == IF ax[1] # ball.position.x
              THEN <<ball.position.y, ball.velocity.y>>
              ELSE RailAxis(ball.position.y, ball.velocity.y, minY, maxY)
    IN  [ball EXCEPT !.position = Vec(ax[1], ay[1]),
                     !.velocity = Vec(ax[2], ay[2])]

\* the bug of a table without top and bottom rails
HandleRailCollisions_SidesOnly(ball, tableWidth, tableHeight) ==
    LET minX == ball.radius
        maxX == tableWidth - ball.radius
        ax == RailAxis(ball.position.x, ball.velocity.x, minX, maxX)
    IN  [ball EXCEPT !.position = Vec(ax[1], ball.position.y),
                     !.velocity = Vec(ax[2], ball.velocity.y)]

HandleRailCollisions(ball, tableWidth, tableHeight) ==
    LET minX == ball.radius
        maxX == tableWidth - ball.radius
        minY == ball.radius
        maxY == tableHeight - ball.radius
        ax == RailAxis(ball.position.x, ball.velocity.x, minX, maxX)
        ay == RailAxis(ball.position.y, ball.velocity.y, minY, maxY)
    IN  [ball EXCEPT !.position = Vec(ax[1], ay[1]),
                     !.velocity = Vec(ax[2], ay[2])]

\* the bug of leaving out the active test
AnyBallMoving_IgnoresActive(bs) ==
    \E i \in 1..Len(bs) : bs[i].velocity.x # 0 \/ bs[i].velocity.y # 0

AnyBallMoving(bs) ==
    \E i \in 1..Len(bs) :
        bs[i].active /\ (bs[i].velocity.x # 0 \/ bs[i].velocity.y # 0)

----------------------------------------------------------------------------
(* src/store/tableSlice.ts *)

Pocket(x, y, radius) == [x |-> x, y |-> y, radius |-> radius]

\* the geometry of the earlier revision of the slice: corner pockets pushed outwards by
\* 0.3 * radius, side pockets by 0.5 * radius
CreatePockets_EarlierInsets(width, height, pocketRadius) ==
    LET sideInset == RoundDiv(pocketRadius * 5, 10)
        cornerInset == RoundDiv(pocketRadius * 3, 10)
    IN  << Pocket(0 - cornerInset, 0 - cornerInset, pocketRadius),
           Pocket(width + cornerInset, 0 - cornerInset, pocketRadius),
           Pocket(0 - cornerInset, height + cornerInset, pocketRadius),
           Pocket(width + cornerInset, height + cornerInset, pocketRadius),
           Pocket(width \div 2, 0 - sideInset, pocketRadius),
           Pocket(width \div 2, height + sideInset, pocketRadius) >>

CreatePockets(width, height, pocketRadius) ==
    LET sideInset == RoundDiv(pocketRadius * 607, 1000)
        cornerInset == 0
    IN  << Pocket(cornerInset, cornerInset, pocketRadius),
           Pocket(width - cornerInset, cornerInset, pocketRadius),
           Pocket(cornerInset, height - cornerInset, pocketRadius),
           Pocket(width - cornerInset, height - cornerInset, pocketRadius),
           Pocket(width \div 2, 0 - sideInset, pocketRadius),
           Pocket(width \div 2, height + sideInset, pocketRadius) >>

\* the bug of storing the payload over the old dimensions: the pockets stay as they were
ReduceSetDimensions_KeepsPockets(payload) ==
    [width |-> payload.width,
     height |-> payload.height,
     pocketRadius |-> payload.pocketRadius,
     railWidth |-> payload.railWidth,
     pockets |-> dimensions.pockets]

\* the setDimensions reducer: the dimensions object it stores
ReduceSetDimensions(payload) ==
    [width |-> payload.width,
     height |-> payload.height,
     pocketRadius |-> payload.pocketRadius,
     railWidth |-> payload.railWidth,
     pockets |-> CreatePockets(payload.width, payload.height, payload.pocketRadius)]

TableInitialState ==
    [width |-> 1000 * Scale,
     height |-> 500 * Scale,
     pocketRadius |-> 25 * Scale,
     railWidth |-> 40 * Scale,
     pockets |-> CreatePockets(1000 * Scale, 500 * Scale, 25 * Scale)]

----------------------------------------------------------------------------
(* src/store/ballSlice.ts *)

BALL_RADIUS == (45 * Scale) \div 4

CreateInitialBalls(tableWidth, tableHeight) ==
    LET footSpotX == RoundDiv(tableWidth * 3, 4)
        footSpotY == RoundDiv(tableHeight, 2)
    IN  << [id |-> 0,
            type |-> "cue",
            position |-> Vec(footSpotX, footSpotY),
            velocity |-> Zero,
            active |-> TRUE,
            radius |-> BALL_RADIUS] >>

BallsInitialState == CreateInitialBalls(1000 * Scale, 500 * Scale)

\* the bug of falling back on the first ball when no ball has the id
Find_DefaultsToFirst(bs, id) ==
    IF \E i \in 1..Len(bs) : bs[i].id = id
    THEN CHOOSE i \in 1..Len(bs) :
            bs[i].id = id /\ \A j \in 1..(i - 1) : bs[j].id # id
    ELSE 1

\* state.balls.find((b) => b.id === id): the index of the first match, 0 for none
Find(bs, id) ==
    IF \E i \in 1..Len(bs) : bs[i].id = id
    THEN CHOOSE i \in 1..Len(bs) :
            bs[i].id = id /\ \A j \in 1..(i - 1) : bs[j].id # id
    ELSE 0

ReduceSetBallPosition(bs, id, position) ==
    LET i == Find(bs, id)
    IN  IF i # 0 THEN [bs EXCEPT ![i].position = position] ELSE bs

\* the bug of clamping what is stored to MAX_SHOT_VELOCITY on each axis
ReduceSetBallVelocity_Clamps(bs, id, velocity) ==
    LET i == Find(bs, id)
        Clamp(v) == IF v > MAX_SHOT_VELOCITY THEN MAX_SHOT_VELOCITY
                    ELSE IF v < 0 - MAX_SHOT_VELOCITY THEN 0 - MAX_SHOT_VELOCITY
                    ELSE v
    IN  IF i # 0
        THEN [bs EXCEPT ![i].velocity = Vec(Clamp(velocity.x), Clamp(velocity.y))]
        ELSE bs

ReduceSetBallVelocity(bs, id, velocity) ==
    LET i == Find(bs, id)
    IN  IF i # 0 THEN [bs EXCEPT ![i].velocity = velocity] ELSE bs

\* the shot reducer: `shot` is imported from ./store/ballSlice by main.ts and dispatched
\* by the end-to-end test, but no revision of the slice at hand defines it
ReduceShot(bs, payload) ==
    LET i == Find(bs, payload.ballId)
    IN  IF i # 0 THEN [bs EXCEPT ![i].velocity = payload.velocity] ELSE bs

ReduceSetBallActive(bs, id, active) ==
    LET i == Find(bs, id)
    IN  IF i # 0 THEN [bs EXCEPT ![i].active = active] ELSE bs

----------------------------------------------------------------------------
(* src/physicsEngine.ts: the work of one tick on one ball *)

Called(name, arg) == [fn |-> name, arg |-> arg]

\* for (const pocket of pockets) { if (checkPocketCollision(...)) { ...; break; } }
\* from pocket k on: the index of the capturing pocket (0: none) and the pockets tested
RECURSIVE PocketLoop(_, _, _)
PocketLoop(ball, pockets, k) ==
    IF k > Len(pockets) THEN [hit |-> 0, tested |-> << >>]
    ELSE IF CheckPocketCollision(ball, pockets[k])
         THEN [hit |-> k, tested |-> << Called("checkPocketCollision", k) >>]
         ELSE LET rest == PocketLoop(ball, pockets, k + 1)
              IN  [hit |-> rest.hit,
                   tested |-> << Called("checkPocketCollision", k) >> \o rest.tested]

\* the body of the loop over the balls, for an active ball: the ball after it, whether
\* a pocket captured it, and the calls made, in order
\* the bug of resolving the rails before the move: the moved ball is not clamped
ProcessBall_RailFirst(ball, pockets, tableWidth, tableHeight) ==
    LET railed == HandleRailCollisions(ball, tableWidth, tableHeight)
        moved == UpdateBallPhysics(railed)
        loop == PocketLoop(moved, pockets, 1)
        after == IF loop.hit # 0
                 THEN [moved EXCEPT !.active = FALSE, !.velocity = Zero]
                 ELSE moved
    IN  [ball |-> after,
         captured |-> loop.hit # 0,
         log |-> << Called("handleRailCollisions", 0), Called("updateBallPhysics", 0) >>
                 \o loop.tested]

\* the bug of leaving the velocity of a captured ball alone
ProcessBall_KeepsVelocity(ball, pockets, tableWidth, tableHeight) ==
    LET moved == UpdateBallPhysics(ball)
        railed == HandleRailCollisions(moved, tableWidth, tableHeight)
        loop == PocketLoop(railed, pockets, 1)
        after == IF loop.hit # 0 THEN [railed EXCEPT !.active = FALSE] ELSE railed
    IN  [ball |-> after,
         captured |-> loop.hit # 0,
         log |-> << Called("updateBallPhysics", 0), Called("handleRailCollisions", 0) >>
                 \o loop.tested]

ProcessBall(ball, pockets, tableWidth, tableHeight) ==
    LET moved == UpdateBallPhysics(ball)
        railed == HandleRailCollisions(moved, tableWidth, tableHeight)
        loop == PocketLoop(railed, pockets, 1)
        after == IF loop.hit # 0
                 THEN [railed EXCEPT !.active = FALSE, !.velocity = Zero]
                 ELSE railed
    IN  [ball |-> after,
         captured |-> loop.hit # 0,
         log |-> << Called("updateBallPhysics", 0), Called("handleRailCollisions", 0) >>
                 \o loop.tested]

----------------------------------------------------------------------------
(* src/physicsEngine.ts: PhysicsEngine.step *)

\* the bug of a spread alone, { ...b }: the copy is a ball object of its own that still
\* refers to the position and velocity objects of the original
CopyBall_Spread(b) == [ball |-> b, shares |-> {"position", "velocity"}]

\* { ...b, position: { ...b.position }, velocity: { ...b.velocity } }: a ball object of
\* its own, with a position and a velocity object of its own. `shares` names the objects
\* of the original the copy still refers to: none
CopyBall(b) == [ball |-> b, shares |-> {}]

\* the original of a copy that the tick has changed to `after`: updateBallPhysics,
\* handleRailCollisions and the capture write in place (ball.position.x += ...,
\* ball.velocity.x = 0, ball.active = false), so what they write reaches the original
\* through every object it shares with the copy
WrittenThrough(original, after, shares) ==
    [original EXCEPT
        !.position = IF "position" \in shares THEN after.position ELSE @,
        !.velocity = IF "velocity" \in shares THEN after.velocity ELSE @,
        !.active = IF "ball" \in shares THEN after.active ELSE @]

\* const balls = state.balls.map((b) => ({ ...b, ... })): the local list
DeepCopy(bs) == [i \in 1..Len(bs) |-> CopyBall(bs[i]).ball]

\* state.balls, the caller's list, when the local list has become `local`
InputAfter(input, local) ==
    [i \in 1..Len(input) |-> WrittenThrough(input[i], local[i], CopyBall(input[i]).shares)]

\* one turn of `for (const ball of balls)` in step(): `ball` is the snapshot's ball,
\* acc.balls the store's balls as the dispatches so far have left them
StepBody(acc, ball, dims) ==
    IF ~ball.active
    THEN [acc EXCEPT !.trace = Append(@, << >>), !.snapshot = Append(@, ball)]
    ELSE LET ballCopy == CopyBall(ball)
             r == ProcessBall(ballCopy.ball, dims.pockets, dims.width, dims.height)
             b1 == ReduceSetBallPosition(acc.balls, ball.id, r.ball.position)
             b2 == ReduceSetBallVelocity(b1, ball.id, r.ball.velocity)
             b3 == IF ~r.ball.active
                   THEN ReduceSetBallActive(b2, ball.id, FALSE)
                   ELSE b2
         IN  [balls |-> b3, trace |-> Append(acc.trace, r.log),
              snapshot |-> Append(acc.snapshot,
                                  WrittenThrough(ball, r.ball, ballCopy.shares))]

RECURSIVE StepForEach(_, _, _, _)
StepForEach(acc, snapshot, i, dims) ==
    IF i > Len(snapshot) THEN acc
    ELSE StepForEach(StepBody(acc, snapshot[i], dims), snapshot, i + 1, dims)

\* step(): the store's balls after it, the value it returns, the calls it made, and
\* the list of balls it read at its start as step() leaves it
StepResult(bs, dims) ==
    IF ~AnyBallMoving(bs)
    THEN [balls |-> bs, trace |-> << >>, continue |-> FALSE, snapshot |-> bs]
    ELSE LET acc == StepForEach([balls |-> bs, trace |-> << >>, snapshot |-> << >>],
                                bs, 1, dims)
         IN  [balls |-> acc.balls, trace |-> acc.trace, continue |-> TRUE,
              snapshot |-> acc.snapshot]

----------------------------------------------------------------------------
(* src/physicsEngine.ts: runPhysicsSimulation *)

\* one turn of `for (const ball of balls)` in the while loop
\* the bug of leaving out `if (ball.active)`: pocketed balls keep being simulated
SimBody_IgnoresActive(acc, i, state) ==
    LET ball == acc.balls[i]
        r == ProcessBall(ball, state.pockets, state.tableWidth, state.tableHeight)
    IN  [balls |-> [acc.balls EXCEPT ![i] = r.ball],
         pocketedBalls |-> IF r.captured
                           THEN Append(acc.pocketedBalls, ball.id)
                           ELSE acc.pocketedBalls,
         trace |-> Append(acc.trace, r.log)]

\* the bug of writing the flag from the pocket test for every ball: a pocketed ball
\* that is no longer over a pocket comes back
SimBody_WritesActive(acc, i, state) ==
    LET ball == acc.balls[i]
        r == ProcessBall([ball EXCEPT !.active = TRUE], state.pockets,
                         state.tableWidth, state.tableHeight)
    IN  IF ball.active
        THEN [balls |-> [acc.balls EXCEPT ![i] = r.ball],
              pocketedBalls |-> IF r.captured
                                THEN Append(acc.pocketedBalls, ball.id)
                                ELSE acc.pocketedBalls,
              trace |-> Append(acc.trace, r.log)]
        ELSE [acc EXCEPT !.balls[i].active = ~r.captured,
                         !.trace = Append(@, << >>)]

\* the bug of leaving out pocketedBalls.push(ball.id)
SimBody_ForgetsPocketed(acc, i, state) ==
    LET ball == acc.balls[i]
    IN  IF ball.active
        THEN LET r == ProcessBall(ball, state.pockets, state.tableWidth, state.tableHeight)
             IN  [balls |-> [acc.balls EXCEPT ![i] = r.ball],
                  pocketedBalls |-> acc.pocketedBalls,
                  trace |-> Append(acc.trace, r.log)]
        ELSE [acc EXCEPT !.trace = Append(@, << >>)]

SimBody(acc, i, state) ==
    LET ball == acc.balls[i]
    IN  IF ball.active
        THEN LET r == ProcessBall(ball, state.pockets, state.tableWidth, state.tableHeight)
             IN  [balls |-> [acc.balls EXCEPT ![i] = r.ball],
                  pocketedBalls |-> IF r.captured
                                    THEN Append(acc.pocketedBalls, ball.id)
                                    ELSE acc.pocketedBalls,
                  trace |-> Append(acc.trace, r.log)]
        ELSE [acc EXCEPT !.trace = Append(@, << >>)]

RECURSIVE SimForEach(_, _, _)
SimForEach(acc, i, state) ==
    IF i > Len(acc.balls) THEN acc
    ELSE SimForEach(SimBody(acc, i, state), i + 1, state)

\* the while condition
\* the bug of an inclusive bound: one tick more than maxIterations
SimContinues_OffByOne(bs, n, max) == AnyBallMoving(bs) /\ n <= max

\* the bug of leaving out the iteration bound
SimContinues_Unbounded(bs, n, max) == AnyBallMoving(bs)

SimContinues(bs, n, max) == AnyBallMoving(bs) /\ n < max

----------------------------------------------------------------------------
(* Inputs *)

At(x, y) == Vec(x * Scale, y * Scale)

CanonicalTable == [width |-> 1000 * Scale, height |-> 500 * Scale,
                   pocketRadius |-> 25 * Scale, railWidth |-> 40 * Scale]

\* a table so small that the corner pockets overlap
SmallTable == [width |-> 40 * Scale, height |-> 40 * Scale,
               pocketRadius |-> 25 * Scale, railWidth |-> 40 * Scale]

TableInputs == {CanonicalTable, SmallTable}

UnknownId == 99

IdInputs == {0, UnknownId}

PositionInputs == {At(982, 18), At(995, 250), At(20, 12), At(250, 250), At(500, 5)}

VelocityInputs == {Zero, Vec(20, 20), At(1, 0), At(60, 0 - 60)}

\* one ball of a list handed to runPhysicsSimulation
SimBall(id, position, velocity, active) ==
    [id |-> id, type |-> IF id = 0 THEN "cue" ELSE "solid", position |-> position,
     velocity |-> velocity, active |-> active, radius |-> BALL_RADIUS]

SimBallInputs ==
    { <<At(19, 19), At(0 - 60, 0 - 60), TRUE>>,
      <<At(250, 250), At(1, 0), TRUE>>,
      <<At(250, 250), At(100, 0), TRUE>>,
      <<At(500, 250), At(60, 0), FALSE>>,
      <<At(20, 12), Zero, TRUE>> }

SimBallLists ==
    UNION { { [i \in 1..n |-> SimBall(i - 1, f[i][1], f[i][2], f[i][3])] :
                f \in [1..n -> SimBallInputs] } : n \in 1..MaxBalls }

SimStateInput(bs, table) ==
    [balls |-> bs,
     pockets |-> CreatePockets(table.width, table.height, table.pocketRadius),
     tableWidth |-> table.width,
     tableHeight |-> table.height]

\* no TableTransform has been constructed
NoTransform == [screenWidth |-> 0]

NoCall == [fn |-> "none"]

NoSimState == [balls |-> << >>, pockets |-> << >>, tableWidth |-> 0, tableHeight |-> 0]

----------------------------------------------------------------------------
(* The state machine *)

Init ==
    /\ balls = BallsInitialState
    /\ dimensions = TableInitialState
    /\ isRunning = FALSE
    /\ steps = 0
    /\ simPc = "idle"
    /\ simState = NoSimState
    /\ maxIterations = 0
    /\ simBalls = << >>
    /\ pocketedBalls = << >>
    /\ iterations = 0
    /\ travelled = << >>
    /\ trace = << >>
    /\ call = NoCall
    /\ accumulatedTime = 0
    /\ animationFrameId = 0
    /\ frames = {}
    /\ observed = << >>
    /\ started = << >>
    /\ ticked = 0
    /\ stopped = FALSE
    /\ transform = NoTransform
    /\ snapshotMutated = FALSE

\* runPhysicsSimulation is synchronous: nothing else runs between its iterations
SimIdle == simPc = "idle"

\* runPhysicsSimulation reads and writes only its arguments and locals, never the
\* store, so its runs are explored beside the initial store only
StoreUntouched ==
    /\ balls = BallsInitialState
    /\ dimensions = TableInitialState
    /\ isRunning = FALSE
    /\ steps = 0

SetBallPosition(id, position) ==
    /\ SimIdle
    /\ balls' = ReduceSetBallPosition(balls, id, position)
    /\ trace' = << >>
    /\ UNCHANGED <<dimensions, isRunning, steps, simVars, call, appVars, transform,
                   snapshotMutated>>

SetBallVelocity(id, velocity) ==
    /\ SimIdle
    /\ balls' = ReduceSetBallVelocity(balls, id, velocity)
    /\ trace' = << >>
    /\ UNCHANGED <<dimensions, isRunning, steps, simVars, call, appVars, transform,
                   snapshotMutated>>

SetBallActive(id, active) ==
    /\ SimIdle
    /\ balls' = ReduceSetBallActive(balls, id, active)
    /\ trace' = << >>
    /\ UNCHANGED <<dimensions, isRunning, steps, simVars, call, appVars, transform,
                   snapshotMutated>>

InitializeBalls(tableWidth, tableHeight) ==
    /\ SimIdle
    /\ balls' = CreateInitialBalls(tableWidth, tableHeight)
    /\ trace' = << >>
    /\ UNCHANGED <<dimensions, isRunning, steps, simVars, call, appVars, transform,
                   snapshotMutated>>

SetDimensions(payload) ==
    /\ SimIdle
    /\ dimensions' = ReduceSetDimensions(payload)
    /\ trace' = << >>
    /\ UNCHANGED <<balls, isRunning, steps, simVars, call, appVars, transform, snapshotMutated>>

SetPhysicsRunning(running) ==
    /\ SimIdle
    /\ isRunning' = running
    /\ trace' = << >>
    /\ UNCHANGED <<balls, dimensions, steps, simVars, call, appVars, transform, snapshotMutated>>

\* PhysicsEngine.step()
Step ==
    /\ SimIdle
    /\ steps < MaxSteps
    /\ LET r == StepResult(balls, dimensions)
       IN  /\ balls' = r.balls
           /\ isRunning' = IF r.continue THEN isRunning ELSE FALSE
           /\ trace' = r.trace
           /\ snapshotMutated' = (snapshotMutated \/ r.snapshot # balls)
    /\ steps' = steps + 1
    /\ UNCHANGED <<dimensions, simVars, call, appVars, transform>>

\* runPhysicsSimulation(state, max): entry, up to the first test of the while condition
SimStart(state, max) ==
    /\ SimIdle
    /\ StoreUntouched
    /\ simPc' = "loop"
    /\ simState' = state
    /\ maxIterations' = max
    /\ simBalls' = DeepCopy(state.balls)
    /\ pocketedBalls' = << >>
    /\ iterations' = 0
    /\ travelled' = [i \in 1..Len(state.balls) |-> 0]
    /\ trace' = << >>
    /\ UNCHANGED <<storeVars, call, appVars, transform, snapshotMutated>>

\* one iteration of the while loop
SimIterate ==
    /\ simPc = "loop"
    /\ SimContinues(simBalls, iterations, maxIterations)
    /\ LET acc == SimForEach([balls |-> simBalls, pocketedBalls |-> pocketedBalls,
                              trace |-> << >>], 1, simState)
       IN  /\ simBalls' = acc.balls
           /\ pocketedBalls' = acc.pocketedBalls
           /\ trace' = acc.trace
           /\ simState' = [simState EXCEPT !.balls = InputAfter(@, acc.balls)]
           /\ travelled' = [i \in 1..Len(simBalls) |->
                                travelled[i] + Length(simBalls[i].position,
                                                      acc.balls[i].position)]
    /\ iterations' = iterations + 1
    /\ UNCHANGED <<storeVars, simPc, maxIterations, call, appVars, transform,
                   snapshotMutated>>

\* the while condition fails: return { balls, pocketedBalls, iterations }
SimReturn ==
    /\ simPc = "loop"
    /\ ~SimContinues(simBalls, iterations, maxIterations)
    /\ simPc' = "done"
    /\ trace' = << >>
    /\ UNCHANGED <<storeVars, simState, maxIterations, simBalls, pocketedBalls,
                   iterations, travelled, call, appVars, transform, snapshotMutated>>

\* the caller drops the result
SimDiscard ==
    /\ simPc = "done"
    /\ simPc' = "idle"
    /\ simState' = NoSimState
    /\ maxIterations' = 0
    /\ simBalls' = << >>
    /\ pocketedBalls' = << >>
    /\ iterations' = 0
    /\ travelled' = << >>
    /\ trace' = << >>
    /\ UNCHANGED <<storeVars, call, appVars, transform, snapshotMutated>>

Next ==
    \/ \E id \in IdInputs, position \in PositionInputs : SetBallPosition(id, position)
    \/ \E id \in IdInputs, velocity \in VelocityInputs : SetBallVelocity(id, velocity)
    \/ \E id \in IdInputs, active \in BOOLEAN : SetBallActive(id, active)
    \/ \E table \in TableInputs : InitializeBalls(table.width, table.height)
    \/ \E table \in TableInputs : SetDimensions(table)
    \/ \E running \in BOOLEAN : SetPhysicsRunning(running)
    \/ Step
    \/ \E bs \in SimBallLists, table \in TableInputs, max \in 0..MaxIter :
            SimStart(SimStateInput(bs, table), max)
    \/ SimIterate
    \/ SimReturn
    \/ SimDiscard

Spec == Init /\ [][Next]_vars

----------------------------------------------------------------------------
(* The physics functions called directly, as tests/unit/physicsEngine.test.ts does *)

TestBall(position, velocity, active, radius) ==
    [id |-> 0, type |-> "cue", position |-> position, velocity |-> velocity,
     active |-> active, radius |-> radius]

SpeedInputs == {0 - 500 * Scale, 0 - 60 * Scale, 0 - Scale, 0 - 29, 0, 1, 28,
                Scale - 1, Scale, 60 * Scale}

UpdateInputs ==
    { TestBall(p, Vec(vx, vy), TRUE, BALL_RADIUS) :
        p \in {At(100, 200), At(0, 0)}, vx \in SpeedInputs, vy \in SpeedInputs }

\* below the low rail, on it, inside, on the high rail, above it
RailXInputs == {5 * Scale, BALL_RADIUS, 500 * Scale, 1000 * Scale - BALL_RADIUS,
                995 * Scale}

RailYInputs == {5 * Scale, BALL_RADIUS, 250 * Scale, 500 * Scale - BALL_RADIUS,
                495 * Scale}

RailInputs ==
    { TestBall(Vec(x, y), v, TRUE, BALL_RADIUS) :
        x \in RailXInputs, y \in RailYInputs,
        v \in {At(0 - 50, 0), At(50, 20), At(0, 0 - 50), At(0 - 20, 50)} }

PocketInputs == {Pocket(0, 0, 25 * Scale), CreatePockets(1000 * Scale, 500 * Scale, 25 * Scale)[5]}

\* inside, on the boundary (distance exactly 25) and just outside of each pocket
PocketBallInputs ==
    { TestBall(p, Zero, TRUE, r) :
        p \in {At(10, 10), At(25, 0), Vec(600, 800), Vec(601, 800), Vec(1001, 0),
               At(100, 100), Vec(500 * Scale, 393), Vec(500 * Scale, 394)},
        r \in {0, BALL_RADIUS, 50 * Scale} }

MovingInputs ==
    { TestBall(Zero, v, a, BALL_RADIUS) :
        v \in {Zero, Vec(1, 0), Vec(0, 0 - 1)}, a \in BOOLEAN }

MovingLists ==
    UNION { [1..n -> MovingInputs] : n \in 0..MaxBalls }

CallUpdateBallPhysics(ball) ==
    /\ call' = [fn |-> "updateBallPhysics", ball |-> ball,
                result |-> UpdateBallPhysics(ball)]
    /\ UNCHANGED <<storeVars, simVars, trace, appVars, transform, snapshotMutated>>

CallHandleRailCollisions(ball, tableWidth, tableHeight) ==
    /\ call' = [fn |-> "handleRailCollisions", ball |-> ball,
                tableWidth |-> tableWidth, tableHeight |-> tableHeight,
                result |-> HandleRailCollisions(ball, tableWidth, tableHeight)]
    /\ UNCHANGED <<storeVars, simVars, trace, appVars, transform, snapshotMutated>>

CallCheckPocketCollision(ball, pocket) ==
    /\ call' = [fn |-> "checkPocketCollision", ball |-> ball, pocket |-> pocket,
                result |-> CheckPocketCollision(ball, pocket)]
    /\ UNCHANGED <<storeVars, simVars, trace, appVars, transform, snapshotMutated>>

CallAnyBallMoving(bs) ==
    /\ call' = [fn |-> "anyBallMoving", balls |-> bs, result |-> AnyBallMoving(bs)]
    /\ UNCHANGED <<storeVars, simVars, trace, appVars, transform, snapshotMutated>>

\* the ball lists the reducers are called on: the initial rack, and two balls
ReducerBallLists ==
    { BallsInitialState,
      << SimBall(0, At(250, 250), Zero, TRUE), SimBall(1, At(500, 250), At(1, 0), FALSE) >> }

ReducerIdInputs == {0, 1, UnknownId}

\* the velocities of the store's inputs, and two shots faster than MAX_SHOT_VELOCITY
ShotVelocityInputs == VelocityInputs \cup {At(600, 0), At(0 - 500, 0 - 501)}

\* ballSlice.reducer(state, setBallPosition({ id, position }))
CallSetBallPosition(bs, id, position) ==
    /\ call' = [fn |-> "setBallPosition", balls |-> bs, id |-> id, payload |-> position,
                result |-> ReduceSetBallPosition(bs, id, position)]
    /\ UNCHANGED <<storeVars, simVars, trace, appVars, transform, snapshotMutated>>

\* ballSlice.reducer(state, setBallVelocity({ id, velocity }))
CallSetBallVelocity(bs, id, velocity) ==
    /\ call' = [fn |-> "setBallVelocity", balls |-> bs, id |-> id, payload |-> velocity,
                result |-> ReduceSetBallVelocity(bs, id, velocity)]
    /\ UNCHANGED <<storeVars, simVars, trace, appVars, transform, snapshotMutated>>

\* ballSlice.reducer(state, shot({ ballId, velocity }))
CallShot(bs, ballId, velocity) ==
    /\ call' = [fn |-> "shot", balls |-> bs, id |-> ballId, payload |-> velocity,
                result |-> ReduceShot(bs, [ballId |-> ballId, velocity |-> velocity])]
    /\ UNCHANGED <<storeVars, simVars, trace, appVars, transform, snapshotMutated>>

\* ballSlice.reducer(state, setBallActive({ id, active }))
CallSetBallActive(bs, id, active) ==
    /\ call' = [fn |-> "setBallActive", balls |-> bs, id |-> id, payload |-> active,
                result |-> ReduceSetBallActive(bs, id, active)]
    /\ UNCHANGED <<storeVars, simVars, trace, appVars, transform, snapshotMutated>>

\* a table of other proportions with small pockets, and a table without pockets' width
PocketTableInputs ==
    TableInputs \cup { [width |-> 200 * Scale, height |-> 100 * Scale,
                        pocketRadius |-> 10 * Scale, railWidth |-> 0],
                       [width |-> 1000 * Scale, height |-> 500 * Scale,
                        pocketRadius |-> 0, railWidth |-> 40 * Scale] }

\* createPockets(width, height, pocketRadius)
CallCreatePockets(width, height, pocketRadius) ==
    /\ call' = [fn |-> "createPockets", width |-> width, height |-> height,
                pocketRadius |-> pocketRadius,
                result |-> CreatePockets(width, height, pocketRadius)]
    /\ UNCHANGED <<storeVars, simVars, trace, appVars, transform, snapshotMutated>>

NextCall ==
    \/ \E table \in PocketTableInputs :
            CallCreatePockets(table.width, table.height, table.pocketRadius)
    \/ \E bs \in ReducerBallLists, id \in ReducerIdInputs, position \in PositionInputs :
            CallSetBallPosition(bs, id, position)
    \/ \E bs \in ReducerBallLists, id \in ReducerIdInputs, velocity \in ShotVelocityInputs :
            CallSetBallVelocity(bs, id, velocity)
    \/ \E bs \in ReducerBallLists, id \in ReducerIdInputs, velocity \in ShotVelocityInputs :
            CallShot(bs, id, velocity)
    \/ \E bs \in ReducerBallLists, id \in ReducerIdInputs, active \in BOOLEAN :
            CallSetBallActive(bs, id, active)
    \/ \E ball \in UpdateInputs : CallUpdateBallPhysics(ball)
    \/ \E ball \in RailInputs :
            CallHandleRailCollisions(ball, 1000 * Scale, 500 * Scale)
    \/ \E ball \in PocketBallInputs, pocket \in PocketInputs :
            CallCheckPocketCollision(ball, pocket)
    \/ \E bs \in MovingLists : CallAnyBallMoving(bs)

SpecCalls == Init /\ [][NextCall]_vars

----------------------------------------------------------------------------
(* runPhysicsSimulation run to completion on the scenarios of tests/unit/store.test.ts *)

\* the default of the parameter maxIterations
DefaultMaxIterations == 10000

\* speed 500 from (150, 150) towards (0, 0): 500 / sqrt(2) = 353.553 on each axis
ShotAtCorner == SimBall(0, At(150, 150), Vec(0 - 14142, 0 - 14142), TRUE)

\* 'should pocket cue ball when shot into top left corner pocket'
ScenarioA == SimStateInput(<< ShotAtCorner >>, CanonicalTable)

ShotAlongTable == SimBall(0, At(250, 250), At(100, 0), TRUE)

\* 'should handle ball that misses the pocket'
ScenarioB == SimStateInput(<< ShotAlongTable >>, CanonicalTable)

\* 'should simulate ball bouncing off rails before pocketing'
ScenarioBounce ==
    SimStateInput(<< SimBall(0, At(100, 250), At(0 - 200, 0 - 200), TRUE) >>, CanonicalTable)

\* two balls on the table, one heading for the corner, one along the table
ScenarioTwoBalls ==
    SimStateInput(<< SimBall(0, At(150, 150), Vec(0 - 14142, 0 - 14142), TRUE),
                     SimBall(1, At(250, 250), At(100, 0), TRUE) >>, CanonicalTable)

\* full speed along the long axis: the ball crosses the table and comes back off the rail
ScenarioFullSpeed ==
    SimStateInput(<< SimBall(0, At(900, 250), At(500, 0), TRUE) >>, CanonicalTable)

\* the faintest of shots, slower than VELOCITY_THRESHOLD
ScenarioFaintShot ==
    SimStateInput(<< SimBall(0, At(250, 250), Vec(Scale \div 2, Scale \div 2), TRUE) >>,
                  CanonicalTable)

\* the shot of ScenarioA from (250, 250), where the e2e test found the cue ball
ScenarioHeadSpot ==
    SimStateInput(<< SimBall(0, At(250, 250), Vec(0 - 14142, 0 - 14142), TRUE) >>,
                  CanonicalTable)

ScenarioInputs ==
    {ScenarioA, ScenarioB, ScenarioBounce, ScenarioTwoBalls, ScenarioFullSpeed,
     ScenarioFaintShot, ScenarioHeadSpot}

NextScenario ==
    \/ \E state \in ScenarioInputs : SimStart(state, DefaultMaxIterations)
    \/ SimIterate
    \/ SimReturn
    \/ SimDiscard

SpecScenarios == Init /\ [][NextScenario]_vars

----------------------------------------------------------------------------
(* src/main.ts: the application - the store with its subscriber, and the singleton *)
(* physicsEngine (autoRun: true) driven by requestAnimationFrame                   *)

\* time is counted in half timesteps: PHYSICS_TIMESTEP = 1 / PHYSICS_FPS seconds
TimeUnitsPerSecond == 2 * PHYSICS_FPS

PHYSICS_TIMESTEP == TimeUnitsPerSecond \div PHYSICS_FPS

\* the time between two animation frames: 120, 60, 40 and 30 frames per second
ElapsedInputs == {1, 2, 3, 4}

\* the ids of the callbacks that can be pending: every step() call schedules at most one
FrameIds == 1..(MaxSteps + 1)

\* requestAnimationFrame returns an id that no pending callback has
FreshFrameId(pending) == CHOOSE id \in 1..(Cardinality(pending) + 1) : id \notin pending

\* what a handler works on: the store, the engine's field, the pending callbacks, and
\* the record of what happened during the handler
App ==
    [balls |-> balls, isRunning |-> isRunning, steps |-> steps,
     animationFrameId |-> animationFrameId, frames |-> frames,
     observed |-> << >>, started |-> << >>, ticked |-> 0, stepDepth |-> 0]

\* Body(value), the value computed once before Body uses it: the `const x = ...` of
\* the source
With(value, Body(_)) == CHOOSE result \in {Body(v) : v \in {value}} : TRUE

RECURSIVE Subscriber(_)
RECURSIVE EngineStart(_)
RECURSIVE RunLoop(_)
RECURSIVE EngineStep(_)
RECURSIVE EngineStepForEach(_, _, _)

\* the bug of testing one component of the velocity only: a shot along the long axis
\* starts nothing
Subscriber_OnlyY(reduced) ==
    With(reduced, LAMBDA state :
        LET k == Len(state.observed) + 1
            seen == [state EXCEPT
                        !.observed = Append(@, [balls |-> state.balls,
                                                stepDepth |-> state.stepDepth,
                                                isRunning |-> state.isRunning,
                                                starts |-> 0,
                                                runningAfter |-> state.isRunning])]
            ballsMoving == \E i \in 1..Len(state.balls) :
                                state.balls[i].active /\ state.balls[i].velocity.y # 0
        IN  IF ballsMoving /\ ~state.isRunning
            THEN With(EngineStart(seen), LAMBDA r :
                    [r EXCEPT !.observed[k].starts = Len(r.started) - Len(state.started),
                              !.observed[k].runningAfter = r.isRunning])
            ELSE seen)

\* store.dispatch(action): `reduced` is the store after the reducer; the subscriber of
\* main.ts runs before dispatch returns.  It reads the state, draws it, and starts the
\* engine if a ball moves and the engine is not running.
Subscriber(reduced) ==
    With(reduced, LAMBDA state :
        LET k == Len(state.observed) + 1
            seen == [state EXCEPT
                        !.observed = Append(@, [balls |-> state.balls,
                                                stepDepth |-> state.stepDepth,
                                                isRunning |-> state.isRunning,
                                                starts |-> 0,
                                                runningAfter |-> state.isRunning])]
            ballsMoving == \E i \in 1..Len(state.balls) :
                                /\ state.balls[i].active
                                /\ (state.balls[i].velocity.x # 0
                                    \/ state.balls[i].velocity.y # 0)
        IN  IF ballsMoving /\ ~state.isRunning
            THEN With(EngineStart(seen), LAMBDA r :
                    [r EXCEPT !.observed[k].starts = Len(r.started) - Len(state.started),
                              !.observed[k].runningAfter = r.isRunning])
            ELSE seen)

\* PhysicsEngine.start(), autoRun being true
EngineStart(a) ==
    RunLoop(Subscriber([a EXCEPT !.started = Append(@, a.isRunning), !.isRunning = TRUE]))

\* PhysicsEngine.runLoop
RunLoop(a) ==
    With(EngineStep(a), LAMBDA r :
        IF r.continue /\ r.app.isRunning
        THEN LET id == FreshFrameId(r.app.frames)
             IN  [r.app EXCEPT !.animationFrameId = id, !.frames = @ \cup {id}]
        ELSE [r.app EXCEPT !.animationFrameId = 0])

\* one turn of `for (const ball of balls)` in step(), each dispatch with its subscriber
EngineStepBody(a, ball) ==
    IF ~ball.active
    THEN a
    ELSE With(ProcessBall(ball, dimensions.pockets, dimensions.width, dimensions.height),
              LAMBDA r :
         With(Subscriber([a EXCEPT !.balls =
                    ReduceSetBallPosition(@, ball.id, r.ball.position)]),
              LAMBDA a1 :
         With(Subscriber([a1 EXCEPT !.balls =
                    ReduceSetBallVelocity(@, ball.id, r.ball.velocity)]),
              LAMBDA a2 :
         IF ~r.ball.active
         THEN Subscriber([a2 EXCEPT !.balls = ReduceSetBallActive(@, ball.id, FALSE)])
         ELSE a2)))

EngineStepForEach(a, snapshot, i) ==
    IF i > Len(snapshot) THEN a
    ELSE EngineStepForEach(EngineStepBody(a, snapshot[i]), snapshot, i + 1)

\* the bug of returning false without the dispatch of setPhysicsRunning(false)
EngineStep_KeepsRunning(a) ==
    With([a EXCEPT !.steps = @ + 1], LAMBDA called :
        IF ~AnyBallMoving(called.balls)
        THEN [app |-> called, continue |-> FALSE]
        ELSE [app |-> [EngineStepForEach([called EXCEPT !.stepDepth = @ + 1,
                                                       !.ticked = @ + 1],
                                         called.balls, 1)
                            EXCEPT !.stepDepth = @ - 1],
              continue |-> TRUE])

\* PhysicsEngine.step() in the application: the application after it and its result
EngineStep(a) ==
    With([a EXCEPT !.steps = @ + 1], LAMBDA called :
        IF ~AnyBallMoving(called.balls)
        THEN [app |-> Subscriber([called EXCEPT !.isRunning = FALSE]), continue |-> FALSE]
        ELSE [app |-> [EngineStepForEach([called EXCEPT !.stepDepth = @ + 1,
                                                       !.ticked = @ + 1],
                                         called.balls, 1)
                            EXCEPT !.stepDepth = @ - 1],
              continue |-> TRUE])

\* PhysicsEngine.stop()
EngineStop(a) ==
    With(Subscriber([a EXCEPT !.isRunning = FALSE]), LAMBDA a1 :
        IF a1.animationFrameId # 0
        THEN [a1 EXCEPT !.frames = @ \ {a1.animationFrameId}, !.animationFrameId = 0]
        ELSE a1)

\* the handler has returned: `a` is what it left
Returned(a) ==
    /\ balls' = a.balls
    /\ isRunning' = a.isRunning
    /\ steps' = a.steps
    /\ animationFrameId' = a.animationFrameId
    /\ frames' = a.frames
    /\ observed' = a.observed
    /\ started' = a.started
    /\ ticked' = a.ticked
    /\ trace' = << >>
    /\ UNCHANGED <<dimensions, simVars, call, accumulatedTime, transform, snapshotMutated>>

\* window.store.dispatch(setBallVelocity({ id, velocity })): a shot
AppSetBallVelocity(id, velocity) ==
    /\ steps < MaxSteps
    /\ \E a \in {Subscriber([App EXCEPT !.balls = ReduceSetBallVelocity(@, id, velocity)])} :
            Returned(a)
    /\ stopped' = IF Find(balls, id) # 0 /\ velocity # Zero THEN FALSE ELSE stopped

\* window.store.dispatch(setBallPosition({ id, position }))
AppSetBallPosition(id, position) ==
    /\ steps < MaxSteps
    /\ \E a \in {Subscriber([App EXCEPT !.balls = ReduceSetBallPosition(@, id, position)])} :
            Returned(a)
    /\ UNCHANGED stopped

\* physicsEngine.stop()
AppStop ==
    /\ steps < MaxSteps
    /\ \E a \in {EngineStop(App)} : Returned(a)
    /\ stopped' = TRUE

\* the browser runs the pending callback `id`, `elapsed` after the frame before:
\* requestAnimationFrame(this.runLoop), and runLoop takes no argument
AnimationFrame(id, elapsed) ==
    /\ id \in frames
    /\ steps < MaxSteps
    /\ \E a \in {RunLoop([App EXCEPT !.frames = @ \ {id}])} : Returned(a)
    /\ UNCHANGED stopped

NextApp ==
    \/ \E id \in IdInputs, velocity \in VelocityInputs : AppSetBallVelocity(id, velocity)
    \/ \E id \in IdInputs, position \in PositionInputs : AppSetBallPosition(id, position)
    \/ AppStop
    \/ \E id \in FrameIds, elapsed \in ElapsedInputs : AnimationFrame(id, elapsed)

SpecApp == Init /\ [][NextApp]_vars

----------------------------------------------------------------------------
(* The numbers of the rendering code: exact fractions <<numerator, denominator>>, in
   lowest terms and with a positive denominator. Screen sizes are pixels and table
   sizes table units, as in tests/unit/tableTransform.test.ts. *)

RECURSIVE Gcd(_, _)
Gcd(m, n) == IF n = 0 THEN m ELSE Gcd(n, m % n)

Rat(n, d) ==
    LET g == Gcd(Abs(n), Abs(d))
        sign == IF d < 0 THEN 0 - 1 ELSE 1
    IN  <<(sign * n) \div g, (sign * d) \div g>>

Num(k) == <<k, 1>>

RNeg(p) == <<0 - p[1], p[2]>>

RAdd(p, q) ==
    LET g == Gcd(p[2], q[2])
    IN  Rat(p[1] * (q[2] \div g) + q[1] * (p[2] \div g), (p[2] \div g) * q[2])

RSub(p, q) == RAdd(p, RNeg(q))

RMul(p, q) ==
    LET g1 == Gcd(Abs(p[1]), q[2])
        g2 == Gcd(Abs(q[1]), p[2])
    IN  <<(p[1] \div g1) * (q[1] \div g2), (p[2] \div g2) * (q[2] \div g1)>>

RDiv(p, q) == RMul(p, Rat(q[2], q[1]))

RLess(p, q) == p[1] * q[2] < q[1] * p[2]

RAbs(p) == <<Abs(p[1]), p[2]>>

\* Math.min
RMin(p, q) == IF RLess(q, p) THEN q ELSE p

----------------------------------------------------------------------------
(* DOMMatrix and DOMPoint, as the polyfill of the unit tests implements them *)

\* new DOMMatrix(): the identity
DOMMatrix == [a |-> Num(1), b |-> Num(0), c |-> Num(0), d |-> Num(1),
              e |-> Num(0), f |-> Num(0)]

DOMPoint(x, y) == [x |-> x, y |-> y]

TranslateSelf(m, tx, ty) ==
    [m EXCEPT !.e = RAdd(m.e, RAdd(RMul(m.a, tx), RMul(m.c, ty))),
              !.f = RAdd(m.f, RAdd(RMul(m.b, tx), RMul(m.d, ty)))]

ScaleSelf(m, scaleX, scaleY) ==
    [m EXCEPT !.a = RMul(m.a, scaleX), !.b = RMul(m.b, scaleX),
              !.c = RMul(m.c, scaleY), !.d = RMul(m.d, scaleY)]

\* Math.cos and Math.sin of an angle in degrees, a multiple of 90
Cos(angle) == CASE angle % 360 = 0 -> Num(1)
                [] angle % 360 = 90 -> Num(0)
                [] angle % 360 = 180 -> Num(0 - 1)
                [] angle % 360 = 270 -> Num(0)

Sin(angle) == CASE angle % 360 = 0 -> Num(0)
                [] angle % 360 = 90 -> Num(1)
                [] angle % 360 = 180 -> Num(0)
                [] angle % 360 = 270 -> Num(0 - 1)

RotateSelf(m, angle) ==
    LET cos == Cos(angle)
        sin == Sin(angle)
    IN  [m EXCEPT !.a = RAdd(RMul(m.a, cos), RMul(m.c, sin)),
                  !.b = RAdd(RMul(m.b, cos), RMul(m.d, sin)),
                  !.c = RSub(RMul(m.c, cos), RMul(m.a, sin)),
                  !.d = RSub(RMul(m.d, cos), RMul(m.b, sin))]

\* the bug of an inverse that does not undo the translation
Inverse_LinearOnly(m) ==
    LET det == RSub(RMul(m.a, m.d), RMul(m.b, m.c))
    IN  [a |-> RDiv(m.d, det),
         b |-> RDiv(RNeg(m.b), det),
         c |-> RDiv(RNeg(m.c), det),
         d |-> RDiv(m.a, det),
         e |-> RNeg(m.e),
         f |-> RNeg(m.f)]

\* inverse(), of a matrix whose determinant is not 0 (it throws below 1e-10)
Inverse(m) ==
    LET det == RSub(RMul(m.a, m.d), RMul(m.b, m.c))
    IN  [a |-> RDiv(m.d, det),
         b |-> RDiv(RNeg(m.b), det),
         c |-> RDiv(RNeg(m.c), det),
         d |-> RDiv(m.a, det),
         e |-> RDiv(RSub(RMul(m.c, m.f), RMul(m.d, m.e)), det),
         f |-> RDiv(RSub(RMul(m.b, m.e), RMul(m.a, m.f)), det)]

MatrixTransform(point, m) ==
    DOMPoint(RAdd(RAdd(RMul(m.a, point.x), RMul(m.c, point.y)), m.e),
             RAdd(RAdd(RMul(m.b, point.x), RMul(m.d, point.y)), m.f))

----------------------------------------------------------------------------
(* TableTransform (rendering/tableTransform.ts). A cached field is << >> for null and
   <<v>> when it holds v. A method is an operator from the object to the object it
   leaves and the value it returns. *)

Null == << >>

DefaultPadding == 40

\* new TableTransform(screenWidth, screenHeight, tableDimensions, padding)
NewTableTransform(screenWidth, screenHeight, tableDimensions, padding) ==
    [screenWidth |-> screenWidth,
     screenHeight |-> screenHeight,
     tableDimensions |-> tableDimensions,
     padding |-> padding,
     cachedIsPortrait |-> Null,
     cachedScale |-> Null,
     cachedTranslationX |-> Null,
     cachedTranslationY |-> Null,
     cachedTransform |-> Null,
     cachedInverseTransform |-> Null]

\* the bug of an invalidation that forgets the inverse matrix
InvalidateCache_KeepsInverse(t) ==
    [t EXCEPT !.cachedIsPortrait = Null,
              !.cachedScale = Null,
              !.cachedTranslationX = Null,
              !.cachedTranslationY = Null,
              !.cachedTransform = Null]

InvalidateCache(t) ==
    [t EXCEPT !.cachedIsPortrait = Null,
              !.cachedScale = Null,
              !.cachedTranslationX = Null,
              !.cachedTranslationY = Null,
              !.cachedTransform = Null,
              !.cachedInverseTransform = Null]

UpdateScreenSizeOf(t, width, height) ==
    InvalidateCache([t EXCEPT !.screenWidth = width, !.screenHeight = height])

UpdateTableDimensionsOf(t, tableDims) ==
    InvalidateCache([t EXCEPT !.tableDimensions = tableDims])

\* the bug of counting a square screen as portrait
IsPortrait_OrEqual(t) ==
    IF t.cachedIsPortrait = Null
    THEN With(t.screenWidth <= t.screenHeight,
              LAMBDA v : [t |-> [t EXCEPT !.cachedIsPortrait = <<v>>], result |-> v])
    ELSE [t |-> t, result |-> t.cachedIsPortrait[1]]

IsPortrait(t) ==
    IF t.cachedIsPortrait = Null
    THEN With(t.screenWidth < t.screenHeight,
              LAMBDA v : [t |-> [t EXCEPT !.cachedIsPortrait = <<v>>], result |-> v])
    ELSE [t |-> t, result |-> t.cachedIsPortrait[1]]

GetTotalTableDimensions(t) ==
    [width |-> t.tableDimensions.width + 2 * t.tableDimensions.railWidth,
     height |-> t.tableDimensions.height + 2 * t.tableDimensions.railWidth]

\* the bug of the same divisors in both orientations
GetScale_NoSwap(t) ==
    IF t.cachedScale = Null
    THEN With(IsPortrait(t), LAMBDA p :
            LET totalTable == GetTotalTableDimensions(t)
                scaleX == Rat(t.screenWidth - 2 * t.padding, totalTable.width)
                scaleY == Rat(t.screenHeight - 2 * t.padding, totalTable.height)
            IN  With(RMin(scaleX, scaleY), LAMBDA v :
                    [t |-> [p.t EXCEPT !.cachedScale = <<v>>], result |-> v]))
    ELSE [t |-> t, result |-> t.cachedScale[1]]

GetScale(t) ==
    IF t.cachedScale = Null
    THEN With(IsPortrait(t), LAMBDA p :
            LET totalTable == GetTotalTableDimensions(t)
                scaleX == IF p.result
                          THEN Rat(t.screenWidth - 2 * t.padding, totalTable.height)
                          ELSE Rat(t.screenWidth - 2 * t.padding, totalTable.width)
                scaleY == IF p.result
                          THEN Rat(t.screenHeight - 2 * t.padding, totalTable.width)
                          ELSE Rat(t.screenHeight - 2 * t.padding, totalTable.height)
            IN  With(RMin(scaleX, scaleY), LAMBDA v :
                    [t |-> [p.t EXCEPT !.cachedScale = <<v>>], result |-> v]))
    ELSE [t |-> t, result |-> t.cachedScale[1]]

GetTranslation(t) ==
    IF t.cachedTranslationX = Null \/ t.cachedTranslationY = Null
    THEN With(GetScale(t), LAMBDA s : With(IsPortrait(s.t), LAMBDA p :
            LET totalTable == GetTotalTableDimensions(t)
                scale == s.result
                across == IF p.result THEN totalTable.height ELSE totalTable.width
                down == IF p.result THEN totalTable.width ELSE totalTable.height
            IN  With(DOMPoint(RDiv(RSub(Num(t.screenWidth), RMul(Num(across), scale)),
                                   Num(2)),
                              RDiv(RSub(Num(t.screenHeight), RMul(Num(down), scale)),
                                   Num(2))),
                     LAMBDA v :
                        [t |-> [p.t EXCEPT !.cachedTranslationX = <<v.x>>,
                                           !.cachedTranslationY = <<v.y>>],
                         result |-> v])))
    ELSE [t |-> t, result |-> DOMPoint(t.cachedTranslationX[1], t.cachedTranslationY[1])]

\* the matrix getTransform() builds from the values it has read
BuildTransform(isPortrait, scale, translation, railWidth, totalTable) ==
    IF isPortrait
    THEN LET offsetX == translation.x
             offsetY == RAdd(translation.y, RMul(Num(totalTable.width), scale))
         IN  TranslateSelf(
                ScaleSelf(
                    RotateSelf(TranslateSelf(DOMMatrix, offsetX, offsetY), 0 - 90),
                    scale, scale),
                Num(railWidth), Num(railWidth))
    ELSE TranslateSelf(
            ScaleSelf(TranslateSelf(DOMMatrix, translation.x, translation.y),
                      scale, scale),
            Num(railWidth), Num(railWidth))

GetTransform(t) ==
    IF t.cachedTransform = Null
    THEN With(IsPortrait(t), LAMBDA p : With(GetScale(p.t), LAMBDA s :
         With(GetTranslation(s.t), LAMBDA tr :
         With(BuildTransform(p.result, s.result, tr.result,
                             t.tableDimensions.railWidth, GetTotalTableDimensions(t)),
              LAMBDA matrix :
                [t |-> [tr.t EXCEPT !.cachedTransform = <<matrix>>],
                 result |-> matrix]))))
    ELSE [t |-> t, result |-> t.cachedTransform[1]]

GetInverseTransform(t) ==
    IF t.cachedInverseTransform = Null
    THEN With(GetTransform(t), LAMBDA g : With(Inverse(g.result), LAMBDA inverse :
            [t |-> [g.t EXCEPT !.cachedInverseTransform = <<inverse>>],
             result |-> inverse]))
    ELSE [t |-> t, result |-> t.cachedInverseTransform[1]]

ScreenToTableOf(t, screenX, screenY) ==
    With(GetInverseTransform(t), LAMBDA g :
        [t |-> g.t, result |-> MatrixTransform(DOMPoint(screenX, screenY), g.result)])

TableToScreenOf(t, tableX, tableY) ==
    With(GetTransform(t), LAMBDA g :
        [t |-> g.t, result |-> MatrixTransform(DOMPoint(tableX, tableY), g.result)])

----------------------------------------------------------------------------
(* Calls on a TableTransform: its constructor and public methods, in any order *)

\* the screens of the unit tests: desktop, tablet portrait, square, the resized desktop
ScreenInputs == { <<1920, 1080>>, <<1080, 1920>>, <<1200, 1200>>, <<1280, 720>> }

StandardTableDimensions == [width |-> 1000, height |-> 500, railWidth |-> 40]

\* the standard table, and the one with rails of 50 of the cache invalidation test
TransformTableInputs ==
    { StandardTableDimensions, [StandardTableDimensions EXCEPT !.railWidth = 50] }

CustomPadding == 100

PaddingInputs == { DefaultPadding, CustomPadding }

\* table points: the middle of each edge of the playing surface, its center, and the
\* points of the round trip tests
TablePointInputs ==
    { <<0, 250>>, <<1000, 250>>, <<500, 0>>, <<500, 500>>, <<500, 250>>,
      <<250, 125>>, <<750, 375>> }

\* screen points: the centers of the desktop and of the tablet screen
ScreenPointInputs == { <<960, 540>>, <<540, 960>> }

Constructed == transform # NoTransform

TransformOnly == UNCHANGED <<storeVars, simVars, trace, appVars, snapshotMutated>>

Construct(screen, tableDims, padding) ==
    /\ transform' = NewTableTransform(screen[1], screen[2], tableDims, padding)
    /\ call' = [fn |-> "constructor"]
    /\ TransformOnly

UpdateScreenSize(screen) ==
    /\ Constructed
    /\ transform' = UpdateScreenSizeOf(transform, screen[1], screen[2])
    /\ call' = [fn |-> "updateScreenSize", before |-> transform]
    /\ TransformOnly

UpdateTableDimensions(tableDims) ==
    /\ Constructed
    /\ transform' = UpdateTableDimensionsOf(transform, tableDims)
    /\ call' = [fn |-> "updateTableDimensions", before |-> transform]
    /\ TransformOnly

\* a method has returned: `r` is the object it left and its value
MethodReturned(fn, r) ==
    /\ transform' = r.t
    /\ call' = [fn |-> fn, result |-> r.result]
    /\ TransformOnly

CallIsPortrait ==
    /\ Constructed
    /\ \E r \in {IsPortrait(transform)} : MethodReturned("isPortrait", r)

CallGetScale ==
    /\ Constructed
    /\ \E r \in {GetScale(transform)} : MethodReturned("getScale", r)

CallGetTranslation ==
    /\ Constructed
    /\ \E r \in {GetTranslation(transform)} : MethodReturned("getTranslation", r)

CallGetTransform ==
    /\ Constructed
    /\ \E r \in {GetTransform(transform)} : MethodReturned("getTransform", r)

CallGetInverseTransform ==
    /\ Constructed
    /\ \E r \in {GetInverseTransform(transform)} : MethodReturned("getInverseTransform", r)

TableToScreen(point) ==
    /\ Constructed
    /\ \E r \in {TableToScreenOf(transform, Num(point[1]), Num(point[2]))} :
        /\ transform' = r.t
        /\ call' = [fn |-> "tableToScreen", point |-> point, result |-> r.result]
    /\ TransformOnly

ScreenToTable(point) ==
    /\ Constructed
    /\ \E r \in {ScreenToTableOf(transform, Num(point[1]), Num(point[2]))} :
        /\ transform' = r.t
        /\ call' = [fn |-> "screenToTable", point |-> point, result |-> r.result]
    /\ TransformOnly

\* const screen = transform.tableToScreen(tableX, tableY);
\* const tableAgain = transform.screenToTable(screen.x, screen.y);
RoundTrip(point) ==
    /\ Constructed
    /\ \E s \in {TableToScreenOf(transform, Num(point[1]), Num(point[2]))} :
        \E r \in {ScreenToTableOf(s.t, s.result.x, s.result.y)} :
            /\ transform' = r.t
            /\ call' = [fn |-> "roundTrip", point |-> point, screen |-> s.result,
                        result |-> r.result]
    /\ TransformOnly

NextTransform ==
    \/ \E screen \in ScreenInputs, tableDims \in TransformTableInputs,
          padding \in PaddingInputs : Construct(screen, tableDims, padding)
    \/ \E screen \in ScreenInputs : UpdateScreenSize(screen)
    \/ \E tableDims \in TransformTableInputs : UpdateTableDimensions(tableDims)
    \/ CallIsPortrait
    \/ CallGetScale
    \/ CallGetTranslation
    \/ CallGetTransform
    \/ CallGetInverseTransform
    \/ \E point \in TablePointInputs : TableToScreen(point)
    \/ \E point \in ScreenPointInputs : ScreenToTable(point)
    \/ \E point \in TablePointInputs : RoundTrip(point)

SpecTransform == Init /\ [][NextTransform]_vars

----------------------------------------------------------------------------
(* Properties of the physics functions, checked under SpecCalls *)

SpeedSquared(velocity) == velocity.x * velocity.x + velocity.y * velocity.y

CalledUpdate == call.fn = "updateBallPhysics"

\* C2: a ball whose speed |velocity| is below VELOCITY_THRESHOLD (1.0) leaves one
\* updateBallPhysics call with velocity exactly (0,0) and its position unchanged.
C2_StopsBelowThreshold ==
    (CalledUpdate /\ SpeedSquared(call.ball.velocity) < Scale * Scale)
        => /\ call.result.velocity = Zero
           /\ call.result.position = call.ball.position

\* a ball that moves at less than 1.0 on a diagonal has been stopped
C2_Witness ==
    /\ CalledUpdate
    /\ call.ball.velocity = Vec(28, 28)
    /\ call.result.velocity = Zero

CalledRail == call.fn = "handleRailCollisions"

\* what C4 says of one axis: position p with velocity v becomes q with w
RailAxisClaim(p, v, q, w, radius, dimension) ==
    /\ p < radius => (q = radius /\ w = 0 - v)
    /\ p > dimension - radius => (q = dimension - radius /\ w = 0 - v)
    /\ (radius <= p /\ p <= dimension - radius) => (q = p /\ w = v)

\* C4: handleRailCollisions clamps each axis on its own to [radius, dimension - radius]
\* and negates that axis's velocity component exactly when it clamped; an axis in range
\* is left alone.
C4_RailPerAxis ==
    CalledRail
        => /\ RailAxisClaim(call.ball.position.x, call.ball.velocity.x,
                            call.result.position.x, call.result.velocity.x,
                            call.ball.radius, call.tableWidth)
           /\ RailAxisClaim(call.ball.position.y, call.ball.velocity.y,
                            call.result.position.y, call.result.velocity.y,
                            call.ball.radius, call.tableHeight)

\* a ball out of bounds on both axes has both components reflected in one call
C4_Witness ==
    /\ CalledRail
    /\ call.ball.position = Vec(5 * Scale, 495 * Scale)
    /\ call.ball.velocity = At(0 - 20, 50)
    /\ call.result.position = Vec(BALL_RADIUS, 500 * Scale - BALL_RADIUS)
    /\ call.result.velocity = At(20, 0 - 50)

CalledPocket == call.fn = "checkPocketCollision"

\* C5: checkPocketCollision is true exactly when the squared distance between the ball
\* center and the pocket center is at most the pocket radius squared; the ball's radius
\* plays no part.
C5_PocketTest ==
    CalledPocket
        => LET dx == call.ball.position.x - call.pocket.x
               dy == call.ball.position.y - call.pocket.y
           IN  call.result = (dx * dx + dy * dy <= call.pocket.radius * call.pocket.radius)

\* a ball wider than the pocket whose center is at distance exactly 25 (15, 20) is in
C5_Witness ==
    /\ CalledPocket
    /\ call.pocket = Pocket(0, 0, 25 * Scale)
    /\ call.ball.position = Vec(600, 800)
    /\ call.ball.radius = 50 * Scale
    /\ call.result = TRUE

CalledMoving == call.fn = "anyBallMoving"

\* C9: anyBallMoving is true exactly when some ball is active and has a velocity
\* component that is not 0; false for the empty list, for balls at rest and when only
\* inactive balls have a velocity.
C9_AnyBallMoving ==
    CalledMoving
        => /\ call.result =
                (\E i \in DOMAIN call.balls :
                    /\ call.balls[i].active = TRUE
                    /\ ~(call.balls[i].velocity.x = 0 /\ call.balls[i].velocity.y = 0))
           /\ call.balls = << >> => call.result = FALSE
           /\ (\A i \in DOMAIN call.balls : call.balls[i].velocity = Zero)
                => call.result = FALSE
           /\ (\A i \in DOMAIN call.balls : ~call.balls[i].active) => call.result = FALSE

\* an inactive ball with a velocity beside an active ball at rest: nothing moves
C9_Witness ==
    /\ CalledMoving
    /\ Len(call.balls) = 2
    /\ ~call.balls[1].active /\ call.balls[1].velocity = Vec(0, 0 - 1)
    /\ call.balls[2].active /\ call.balls[2].velocity = Zero
    /\ call.result = FALSE

----------------------------------------------------------------------------
(* Properties of the ticks, checked under Spec *)

InPocket(position, pocket) ==
    (position.x - pocket.x) * (position.x - pocket.x)
        + (position.y - pocket.y) * (position.y - pocket.y)
            <= pocket.radius * pocket.radius

\* step() ran its loop over the balls
EngineTicked == Step /\ AnyBallMoving(balls)

\* what C1 says of one tick: `pre` and `post` are the balls before and after it and
\* `log` the calls it made for each
TickOrder(pre, post, log, pockets, tableWidth, tableHeight) ==
    /\ Len(log) = Len(pre)
    /\ \A i \in 1..Len(pre) :
        pre[i].active =>
            LET n == Len(log[i]) - 2
                b == post[i]
            IN  /\ n >= 0
                /\ log[i][1] = Called("updateBallPhysics", 0)
                /\ log[i][2] = Called("handleRailCollisions", 0)
                /\ \A j \in 1..n : log[i][j + 2] = Called("checkPocketCollision", j)
                /\ n <= Len(pockets)
                /\ \A j \in 1..(n - 1) : ~InPocket(b.position, pockets[j])
                /\ n = Len(pockets) \/ (n >= 1 /\ InPocket(b.position, pockets[n]))
                \* the rails were resolved after the move
                /\ tableWidth >= 2 * b.radius =>
                        (b.radius <= b.position.x /\ b.position.x <= tableWidth - b.radius)
                /\ tableHeight >= 2 * b.radius =>
                        (b.radius <= b.position.y /\ b.position.y <= tableHeight - b.radius)
                \* the pockets were tested after the rails
                /\ b.active => \A j \in 1..Len(pockets) : ~InPocket(b.position, pockets[j])

\* C1: in every tick (PhysicsEngine.step, an iteration of runPhysicsSimulation) each
\* active ball is integrated, then resolved against the rails, then tested against the
\* pockets in list order, and no pocket after the first capturing one is tested.
C1_TickOrder ==
    [][ /\ EngineTicked =>
            TickOrder(balls, balls', trace', dimensions.pockets,
                      dimensions.width, dimensions.height)
        /\ SimIterate =>
            TickOrder(simBalls, simBalls', trace', simState.pockets,
                      simState.tableWidth, simState.tableHeight) ]_vars

\* step() has moved the cue ball from (982, 18) into the second pocket, the top-right
\* one, and tested two of the six pockets
C1_Witness ==
    /\ simPc = "idle"
    /\ Len(trace) = 1
    /\ Len(trace[1]) = 4
    /\ balls[1].position = At(983, 17)
    /\ ~balls[1].active

Range(seq) == {seq[i] : i \in 1..Len(seq)}

NoDuplicates(seq) == \A i, j \in 1..Len(seq) : seq[i] = seq[j] => i = j

\* the indices of the balls a tick deactivated
Deactivated(pre, post) == {i \in 1..Len(pre) : pre[i].active /\ ~post[i].active}

\* the k-th smallest element of a set of numbers
Kth(set, k) == CHOOSE i \in set : Cardinality({j \in set : j < i}) = k - 1

\* what C6 says of the balls of one tick
TickCapture(pre, post, log, pockets) ==
    \A i \in 1..Len(pre) :
        (pre[i].active /\ \E j \in 1..Len(pockets) : InPocket(post[i].position, pockets[j]))
            => /\ ~post[i].active
               /\ post[i].velocity = Zero
               /\ LET n == Len(log[i]) - 2
                  IN  /\ n >= 1
                      /\ InPocket(post[i].position, pockets[n])
                      /\ \A j \in 1..(n - 1) : ~InPocket(post[i].position, pockets[j])

\* C6: a ball a pocket test succeeds for ends the tick inactive with velocity (0,0), the
\* capturing pocket being the first of the list that contains its center; and
\* runPhysicsSimulation appends its id to pocketedBalls once, so that pocketedBalls
\* lists, without duplicates and in capture order, the balls that went inactive.
C6_Capture ==
    [][ /\ EngineTicked => TickCapture(balls, balls', trace', dimensions.pockets)
        /\ SimIterate =>
            /\ TickCapture(simBalls, simBalls', trace', simState.pockets)
            /\ LET gone == Deactivated(simBalls, simBalls')
               IN  /\ Len(pocketedBalls') = Len(pocketedBalls) + Cardinality(gone)
                   /\ \A k \in 1..Len(pocketedBalls) : pocketedBalls'[k] = pocketedBalls[k]
                   /\ \A k \in 1..Cardinality(gone) :
                        pocketedBalls'[Len(pocketedBalls) + k] = simBalls[Kth(gone, k)].id
            /\ NoDuplicates(pocketedBalls')
            /\ Range(pocketedBalls') =
                 {simBalls'[i].id : i \in Deactivated(simState.balls, simBalls')} ]_vars

\* on the small table: ball 1, at rest over the first two pockets, went in the first tick
\* and ball 0 in the second
C6_Witness ==
    /\ simPc = "loop"
    /\ simState.tableWidth = 40 * Scale
    /\ pocketedBalls = <<1, 0>>
    /\ iterations = 2
    /\ Len(trace[1]) = 3
    /\ InPocket(simBalls[2].position, simState.pockets[1])
    /\ InPocket(simBalls[2].position, simState.pockets[2])
    /\ \A i \in 1..2 : ~simBalls[i].active /\ simBalls[i].velocity = Zero

\* the original C7: once a ball is inactive, nothing but re-initialising the rack makes
\* it active again
C7_Irreversible ==
    [][ \A i \in 1..Len(balls) :
            (~balls[i].active /\ i <= Len(balls') /\ balls'[i].active)
                => \E table \in TableInputs : InitializeBalls(table.width, table.height)
      ]_vars

\* C7 as amended: no tick makes an inactive ball active again, in the store or in a
\* runPhysicsSimulation run, and a run deactivates each ball at most once; in the store
\* only setBallActive with active = true and initializeBalls bring a ball back.
C7_TicksNeverReactivate ==
    [][ /\ \A i \in 1..Len(balls) :
            (~balls[i].active /\ i <= Len(balls') /\ balls'[i].active)
                => \/ \E id \in IdInputs : SetBallActive(id, TRUE)
                   \/ \E table \in TableInputs : InitializeBalls(table.width, table.height)
        /\ Step => \A i \in 1..Len(balls) : ~balls[i].active => ~balls'[i].active
        /\ SimIterate =>
            /\ \A i \in 1..Len(simBalls) : ~simBalls[i].active => ~simBalls'[i].active
            /\ NoDuplicates(pocketedBalls') ]_vars

\* a pocketed ball, inactive and away from every pocket, has stayed inactive through a
\* tick that moved the other ball
C7_Witness ==
    /\ simPc = "loop"
    /\ iterations >= 1
    /\ Len(simBalls) = 2
    /\ ~simState.balls[1].active /\ ~simBalls[1].active
    /\ \A j \in 1..Len(simState.pockets) :
            ~InPocket(simBalls[1].position, simState.pockets[j])
    /\ simBalls[2].position # simState.balls[2].position

\* C8: a tick leaves every inactive ball as it is, position, velocity and flag, whatever
\* its velocity, and makes no call for it; and an inactive ball does not count as
\* moving: alone it makes step() do nothing and ends the runPhysicsSimulation loop.
C8_InactiveExcluded ==
    [][ /\ Step =>
            /\ \A i \in 1..Len(balls) :
                ~balls[i].active => (balls'[i] = balls[i] /\ (trace' # << >> => trace'[i] = << >>))
            /\ (\A i \in 1..Len(balls) : ~balls[i].active) => trace' = << >>
        /\ SimIterate =>
            /\ \A i \in 1..Len(simBalls) :
                ~simBalls[i].active => (simBalls'[i] = simBalls[i] /\ trace'[i] = << >>)
            /\ \E i \in 1..Len(simBalls) : simBalls[i].active /\ simBalls[i].velocity # Zero
      ]_vars

\* an inactive ball that carries a velocity sat out a tick that processed the other ball
C8_Witness ==
    /\ simPc = "loop"
    /\ Len(trace) = 2
    /\ ~simBalls[1].active /\ simBalls[1].velocity # Zero
    /\ simBalls[1] = simState.balls[1]
    /\ trace[1] = << >>
    /\ trace[2] # << >>

\* C10: runPhysicsSimulation makes at most maxIterations ticks and returns with
\* iterations <= maxIterations, also when the balls never settle: every pass of the loop
\* is one tick that counts iterations up by one towards maxIterations, which it never
\* passes, and the loop is left only by returning the count reached.
C10_Terminates ==
    [][ /\ iterations' <= maxIterations'
        /\ SimIterate =>
            /\ iterations' = iterations + 1
            /\ maxIterations' = maxIterations
            /\ maxIterations - iterations' >= 0
            /\ maxIterations - iterations' < maxIterations - iterations
        /\ (simPc = "loop" /\ simPc' = "loop") => SimIterate
        /\ (simPc = "loop" /\ simPc' # "loop") =>
            (SimReturn /\ simPc' = "done" /\ iterations' = iterations)
        /\ (simPc = "loop" /\ iterations = maxIterations) => simPc' # "loop"
      ]_vars

\* the balls never settled: the run returned after maxIterations ticks with a ball moving
C10_Witness ==
    /\ simPc = "done"
    /\ maxIterations >= 2
    /\ iterations = maxIterations
    /\ AnyBallMoving(simBalls)

\* the indices of the balls that moved before a tick and have velocity (0,0) after it
Zeroed(pre, post) ==
    {i \in 1..Len(pre) : pre[i].velocity # Zero /\ post[i].velocity = Zero}

\* the original C22: the threshold rule is the sole stopping rule - a tick, of
\* PhysicsEngine.step or of runPhysicsSimulation, sets a ball's velocity to (0,0) only
\* when its speed was below VELOCITY_THRESHOLD
C22_SoleStoppingRule ==
    [][ /\ Step => \A i \in Zeroed(balls, balls') : BelowThreshold(balls[i].velocity)
        /\ SimIterate =>
            \A i \in Zeroed(simBalls, simBalls') : BelowThreshold(simBalls[i].velocity)
      ]_vars

\* what the amended C22 says of one tick
StoppedOrCaptured(pre, post, pockets) ==
    /\ \A i \in Zeroed(pre, post) :
        /\ pre[i].active
        /\ \/ BelowThreshold(pre[i].velocity)
           \/ /\ i \in Deactivated(pre, post)
              /\ \E j \in 1..Len(pockets) : InPocket(post[i].position, pockets[j])
    /\ \A i \in 1..Len(pre) :
        (pre[i].active /\ BelowThreshold(pre[i].velocity)) => post[i].velocity = Zero

\* C22 as amended: a tick, of PhysicsEngine.step or of runPhysicsSimulation, sets the
\* velocity of a moving ball to (0,0) in two cases only - its speed was below
\* VELOCITY_THRESHOLD, the stopping rule of the integrate step, or a pocket captured it
\* in that tick, at any speed; friction and the rails never bring a velocity to (0,0),
\* and the threshold rule stops every active ball it applies to.
C22_StoppedOrCaptured ==
    [][ /\ EngineTicked => StoppedOrCaptured(balls, balls', dimensions.pockets)
        /\ Step => \A i \in Zeroed(balls, balls') : EngineTicked
        /\ SimIterate => StoppedOrCaptured(simBalls, simBalls', simState.pockets)
      ]_vars

\* a run of runPhysicsSimulation has captured a ball shot at (-60, -60), far faster than
\* the threshold, and set its velocity to (0,0); the other ball, started at speed 1, was
\* slowed by one tick and stopped where it was by the threshold rule in the next
C22_Witness ==
    /\ simPc = "loop"
    /\ iterations = 2
    /\ Len(simBalls) = 2
    /\ simState.balls[1].active
    /\ simState.balls[1].velocity = At(0 - 60, 0 - 60)
    /\ ~simBalls[1].active
    /\ simBalls[1].velocity = Zero
    /\ simState.balls[2].velocity = At(1, 0)
    /\ simBalls[2].active
    /\ simBalls[2].velocity = Zero
    /\ simBalls[2].position.x = 250 * Scale + 1

----------------------------------------------------------------------------
(* Properties of the result of runPhysicsSimulation, checked under Spec *)

\* some active ball of a returned ball list has a velocity component that is not 0
StillMoving(bs) ==
    \E i \in 1..Len(bs) : bs[i].active /\ ~(bs[i].velocity.x = 0 /\ bs[i].velocity.y = 0)

----------------------------------------------------------------------------
(* Properties of the scenarios, checked under SpecScenarios *)

\* every active ball has velocity exactly (0,0)
AllAtRest(bs) == \A i \in 1..Len(bs) : bs[i].active => bs[i].velocity = Zero

\* what C12 says of one ball over one tick: captured, or still active and slower
Decelerates(pre, post, pockets) ==
    \/ /\ ~post.active
       /\ post.velocity = Zero
       /\ \E j \in 1..Len(pockets) : InPocket(post.position, pockets[j])
    \/ /\ post.active
       /\ \A j \in 1..Len(pockets) : ~InPocket(post.position, pockets[j])
       /\ \/ post.velocity = Zero
          \/ pre.velocity.x * pre.velocity.x + pre.velocity.y * pre.velocity.y
                > post.velocity.x * post.velocity.x + post.velocity.y * post.velocity.y

\* C12: with the canonical constants and no further shot, the ticks of a
\* runPhysicsSimulation run end in a state in which every active ball has velocity
\* exactly (0,0), well before maxIterations: the loop goes on ticking while a ball moves,
\* in each tick every moving ball is captured or stays active and loses speed, and the
\* run returns with all active balls at rest; a ball that meets no pocket ends at rest
\* and active - the cue ball shot from (250,250) with velocity (100,0) is active
\* throughout and ends with velocity (0,0), further along the table and in no pocket.
C12_ComesToRest ==
    [][ /\ SimIterate =>
            /\ iterations' = iterations + 1
            /\ \A i \in 1..Len(simBalls) :
                (simBalls[i].active /\ simBalls[i].velocity # Zero)
                    => Decelerates(simBalls[i], simBalls'[i], simState.pockets)
        /\ (simPc = "loop" /\ ~AllAtRest(simBalls)) => SimIterate
        /\ (simPc = "loop" /\ AllAtRest(simBalls)) => SimReturn
        /\ simPc' = "done" => (AllAtRest(simBalls') /\ iterations' < maxIterations')
        /\ simState' = ScenarioB =>
            /\ simBalls'[1].active
            /\ pocketedBalls' = << >>
            /\ simBalls'[1].position.y = 250 * Scale
            /\ simPc' = "done" => (simBalls'[1].velocity = Zero
                                   /\ simBalls'[1].position.x > 250 * Scale)
      ]_vars

\* the cue ball of scenario B has come to rest, active, after more than a hundred ticks
C12_Witness ==
    /\ simPc = "done"
    /\ simState = ScenarioB
    /\ iterations > 100
    /\ simBalls[1].active
    /\ simBalls[1].velocity = Zero
    /\ simBalls[1].position.x > 290 * Scale
    /\ pocketedBalls = << >>

\* C13: scenario A - on the 1000x500 table with the canonical pockets the cue ball at
\* (150,150), shot at speed 500 straight at the corner pocket at (0,0), ends the run
\* inactive, with velocity (0,0) and its center in that pocket, pocketedBalls = [0] and
\* 0 < iterations < 10000.
C13_ScenarioA ==
    (simPc = "done" /\ simState = ScenarioA)
        => /\ Len(simBalls) = 1
           /\ simBalls[1].id = 0
           /\ ~simBalls[1].active
           /\ simBalls[1].velocity = Zero
           /\ InPocket(simBalls[1].position, Pocket(0, 0, 25 * Scale))
           /\ pocketedBalls = << 0 >>
           /\ 0 < iterations
           /\ iterations < 10000

\* the run of scenario A has returned, the ball having travelled down the diagonal
C13_Witness ==
    /\ simPc = "done"
    /\ simState = ScenarioA
    /\ simState.balls[1].position = At(150, 150)
    /\ simBalls[1].position.x < 25 * Scale
    /\ simBalls[1].position.x = simBalls[1].position.y
    /\ pocketedBalls = << 0 >>

\* the run is that of a single shot on the canonical table: one ball has a velocity, of
\* speed at most MAX_SHOT_VELOCITY
SingleShot(state) ==
    /\ state.tableWidth = CanonicalTable.width
    /\ state.tableHeight = CanonicalTable.height
    /\ Cardinality({i \in 1..Len(state.balls) : state.balls[i].velocity # Zero}) = 1
    /\ \A i \in 1..Len(state.balls) :
        /\ state.balls[i].active
        /\ state.balls[i].velocity.x * state.balls[i].velocity.x
            + state.balls[i].velocity.y * state.balls[i].velocity.y
                <= MAX_SHOT_VELOCITY * MAX_SHOT_VELOCITY

\* C29: after a single shot of speed at most MAX_SHOT_VELOCITY on the canonical table the
\* simulation completes in more than 0 and fewer than 1000 ticks: while a ball moves the
\* count of ticks made is below 1000, and when the ticks end it is above 0 and no
\* active ball moves - the ball is at rest or in a pocket.
C29_ShotCompletes ==
    SingleShot(simState) =>
        /\ simPc = "loop" =>
            /\ iterations < 1000
            /\ iterations = 0 => AnyBallMoving(simBalls)
        /\ simPc = "done" =>
            /\ 0 < iterations
            /\ iterations < 1000
            /\ ~AnyBallMoving(simBalls)
            /\ \A i \in 1..Len(simBalls) :
                ~simBalls[i].active \/ simBalls[i].velocity = Zero

\* the longest run: a shot of speed 500 along the table that meets no pocket has rolled
\* for 186 ticks, off the rail and back, and is at rest
C29_Witness ==
    /\ simPc = "done"
    /\ simState = ScenarioFullSpeed
    /\ SingleShot(simState)
    /\ iterations = 186
    /\ simBalls[1].active
    /\ simBalls[1].velocity = Zero
    /\ simBalls[1].position.x < 900 * Scale

\* the speed of a velocity, rounded up to a whole grid value
Speed(velocity) == CeilSqrt(SpeedSquared(velocity))

\* what the grid adds to a path of n ticks: each tick's move is rounded to the grid on
\* both axes and its length rounded up, less than two grid values together
GridAllowance(n) == 2 * n

----------------------------------------------------------------------------
(* Properties of the application, checked under SpecApp *)

\* C15: an explicit stop() is not contradicted by an automatic restart - when stop()
\* returns, physics.isRunning is false, no animation frame is pending and stop() has run
\* no physics step, the store subscriber reacting to stop()'s own dispatch included; and
\* from then until an external action sets a new nonzero velocity the engine stays
\* stopped and no step runs.
C15_StopHolds ==
    [][ /\ AppStop =>
            /\ isRunning' = FALSE
            /\ frames' = {}
            /\ animationFrameId' = 0
            /\ ticked' = 0
        /\ (stopped /\ stopped') => (isRunning' = FALSE /\ ticked' = 0) ]_vars

\* the snapshots the subscriber read outside of step()'s loop during the last handler
SeenBetweenTicks(log) == {log[k].balls : k \in {j \in 1..Len(log) : log[j].stepDepth = 0}}

\* C16: a tick is atomic for its observers - no step runs inside another step, and
\* whatever the store subscriber reads while step() is looping over the balls is the
\* state at a tick boundary (before the tick or after it), never a ball whose position
\* has been written back while its velocity or active flag has not.
C16_TickAtomic ==
    [][ \A k \in 1..Len(observed') :
            /\ observed'[k].stepDepth <= 1
            /\ observed'[k].stepDepth = 1 =>
                    observed'[k].balls \in ({balls, balls'} \cup SeenBetweenTicks(observed'))
      ]_vars

\* C17: the driver feeds a fixed timestep from an accumulator - an animation frame that
\* comes `elapsed` after the one before adds it to the accumulated time, runs one tick
\* for every whole PHYSICS_TIMESTEP in it (none, one or several) and carries the
\* remainder to the next frame.
C17_Accumulator ==
    [][ \A id \in FrameIds, elapsed \in ElapsedInputs :
            (AnimationFrame(id, elapsed) /\ isRunning /\ AnyBallMoving(balls)) =>
                /\ ticked' = (accumulatedTime + elapsed) \div PHYSICS_TIMESTEP
                /\ accumulatedTime' = (accumulatedTime + elapsed) % PHYSICS_TIMESTEP
      ]_vars

\* a ball that is out of play and has a speed all the same
InactiveWithVelocity(bs) == \E i \in 1..Len(bs) : ~bs[i].active /\ bs[i].velocity # Zero

\* C33: with the subscriber of main.ts, any dispatch that leaves an active ball with a
\* nonzero velocity while physics.isRunning is false starts the engine, and
\* physics.isRunning is true when the dispatch returns; a dispatch that leaves no
\* active ball with a nonzero velocity (a nonzero velocity on an inactive ball
\* included) starts nothing; and no start() is issued while physics.isRunning is true.
C33_StartsWhenMoving ==
    [][ /\ \A k \in 1..Len(observed') :
                /\ (AnyBallMoving(observed'[k].balls) /\ ~observed'[k].isRunning) =>
                        (observed'[k].starts >= 1 /\ observed'[k].runningAfter)
                /\ ~AnyBallMoving(observed'[k].balls) =>
                        (observed'[k].starts = 0
                         /\ observed'[k].runningAfter = observed'[k].isRunning)
                /\ observed'[k].isRunning => observed'[k].starts = 0
        /\ \A n \in 1..Len(started') : started'[n] = FALSE
      ]_vars

\* a shot started the engine
C33_Witness ==
    /\ Len(started) = 1
    /\ Len(observed) >= 1
    /\ observed[1].starts = 1
    /\ ~observed[1].isRunning
    /\ isRunning

\* a velocity given to a pocketed ball while the engine is idle started nothing
InactiveBallStartsNothing ==
    /\ started = << >>
    /\ Len(observed) = 1
    /\ InactiveWithVelocity(observed[1].balls)
    /\ ~observed[1].isRunning

\* C34: once no active ball is moving, the next step() dispatches
\* setPhysicsRunning(false), returns false and changes no ball.  Under the
\* animation-frame loop a frame is pending for as long as physics.isRunning is true,
\* and the frame that finds the balls at rest runs no tick, leaves physics.isRunning
\* false and animationFrameId null, and schedules no further frame.
C34_LoopEndsAtRest ==
    [][ /\ isRunning' => frames' # {}
        /\ \A id \in FrameIds, elapsed \in ElapsedInputs :
                (AnimationFrame(id, elapsed) /\ ~AnyBallMoving(balls)) =>
                    /\ balls' = balls
                    /\ ticked' = 0
                    /\ isRunning' = FALSE
                    /\ animationFrameId' = 0
                    /\ frames' = frames \ {id}
                    /\ Len(observed') = 1
                    /\ observed'[1].isRunning = FALSE
      ]_vars

\* a shot too faint to outlast one tick, then the frame that finds the ball at rest
C34_Witness ==
    /\ steps = 2
    /\ ~AnyBallMoving(balls)
    /\ ~stopped
    /\ ticked = 0
    /\ isRunning = FALSE
    /\ animationFrameId = 0
    /\ frames = {}
    /\ Len(observed) = 1
    /\ observed[1].isRunning = FALSE

\* C39: at most one runLoop frame callback is pending at any time, and animationFrameId
\* holds its id (and is null when none is pending), across any sequence of shots,
\* stops and frames.
C39_OneFramePending ==
    /\ Cardinality(frames) <= 1
    /\ frames = IF animationFrameId = 0 THEN {} ELSE {animationFrameId}

----------------------------------------------------------------------------
(* Properties of the store's reducers, checked under SpecCalls *)

CalledBallReducer == call.fn \in {"setBallPosition", "setBallVelocity", "setBallActive"}

\* C18: setBallPosition, setBallVelocity and setBallActive for an id that no ball has
\* leave the whole list of balls as it was.
C18_UnknownIdIgnored ==
    (CalledBallReducer /\ \A i \in 1..Len(call.balls) : call.balls[i].id # call.id)
        => call.result = call.balls

\* the test of tests/unit/ballSlice.test.ts on a list of two balls: setBallActive for an
\* id no ball has left both balls alone
C18_Witness ==
    /\ call.fn = "setBallActive"
    /\ call.id = UnknownId
    /\ Len(call.balls) = 2
    /\ call.result = call.balls
    /\ call.result[1].active /\ ~call.result[2].active

C21_ShotSetsVelocity ==
    (call.fn \in {"shot", "setBallVelocity"}
        /\ \E i \in 1..Len(call.balls) : call.balls[i].id = call.id)
        => /\ Len(call.result) = Len(call.balls)
           /\ \A i \in 1..Len(call.balls) :
                IF call.balls[i].id = call.id
                THEN /\ call.result[i].velocity = call.payload
                     /\ call.result[i].position = call.balls[i].position
                     /\ call.result[i].active = call.balls[i].active
                     /\ call.result[i] = [call.balls[i] EXCEPT !.velocity = call.payload]
                ELSE call.result[i] = call.balls[i]

\* setBallVelocity has stored (600, 0), faster than MAX_SHOT_VELOCITY, on the second of
\* two balls, an inactive one, and left the first ball alone
C21_Witness ==
    /\ call.fn = "setBallVelocity"
    /\ call.id = 1
    /\ Len(call.balls) = 2
    /\ call.payload = At(600, 0)
    /\ call.result[2].velocity = At(600, 0)
    /\ ~call.result[2].active
    /\ call.result[1] = call.balls[1]

----------------------------------------------------------------------------
(* Properties of the table slice, checked under Spec *)

----------------------------------------------------------------------------
(* Properties of the balls of one run, checked under Spec *)

\* the list runPhysicsSimulation returns for the balls `bs`, from tick `n` on
RECURSIVE RunFrom(_, _, _, _)
RunFrom(bs, state, n, max) ==
    IF SimContinues(bs, n, max)
    THEN RunFrom(SimForEach([balls |-> bs, pocketedBalls |-> << >>, trace |-> << >>],
                            1, state).balls,
                 state, n + 1, max)
    ELSE bs

\* C31: balls do not interact - what a run of runPhysicsSimulation returns for a ball
\* is what the run on the same table returns for that ball alone, whatever the other
\* balls of the list are: its position, its velocity and whether it was captured.
C31_NoInteraction ==
    simPc = "done" =>
        \A i \in 1..Len(simBalls) :
            simBalls[i] = RunFrom(<< simState.balls[i] >>, simState, 0, maxIterations)[1]

\* C32: step() returns true if the simulation should continue and false if all balls
\* have stopped - whenever no active ball is moving once the call has finished, the
\* call returned false
C32_ReturnTellsMoving ==
    [][Step /\ ~AnyBallMoving(balls') => ~StepResult(balls, dimensions).continue]_vars

\* the dimensions of the store's table slice that step() reads, for the table of a run
DimensionsOf(state) ==
    [pockets |-> state.pockets, width |-> state.tableWidth, height |-> state.tableHeight]

\* `while (engine.step()) {}` on a store that holds bs, for at most `calls` calls: the
\* store's balls at the end, and whether the last call returned false
RECURSIVE StepUntilFalse(_, _, _)
StepUntilFalse(bs, dims, calls) ==
    IF calls = 0
    THEN [balls |-> bs, returnedFalse |-> FALSE]
    ELSE With(StepResult(bs, dims), LAMBDA r :
            IF ~r.continue
            THEN [balls |-> r.balls, returnedFalse |-> TRUE]
            ELSE StepUntilFalse(r.balls, dims, calls - 1))

\* the ids of the balls that were in play in `before` and are not in `after`
TakenOutOfPlay(before, after) ==
    {before[i].id : i \in {j \in 1..Len(before) : before[j].active /\ ~after[j].active}}

\* C36: the two drivers agree - from the same balls and table, calling step() until it
\* returns false leaves the store's balls exactly as a run of runPhysicsSimulation that
\* was not cut short returns them, after one call more than the run made iterations,
\* and the balls it deactivated are those of pocketedBalls.
C36_DriversAgree ==
    (simPc = "done" /\ ~AnyBallMoving(simBalls)) =>
        \E r \in {StepUntilFalse(simState.balls, DimensionsOf(simState), iterations + 1)} :
            /\ r.returnedFalse
            /\ r.balls = simBalls
            /\ TakenOutOfPlay(simState.balls, r.balls)
                    = {pocketedBalls[k] : k \in 1..Len(pocketedBalls)}

\* a run of two balls over several ticks that ended with a capture
C36_Witness ==
    /\ simPc = "done"
    /\ ~AnyBallMoving(simBalls)
    /\ Len(simBalls) = 2
    /\ iterations >= 2
    /\ pocketedBalls # << >>
    /\ StepUntilFalse(simState.balls, DimensionsOf(simState), iterations + 1).balls
            = simBalls

\* every ball that was in play in `pre` has its center between the rails in `post`
BetweenRails(pre, post, tableWidth, tableHeight) ==
    \A i \in 1..Len(pre) :
        (/\ pre[i].active
         /\ tableWidth >= 2 * pre[i].radius
         /\ tableHeight >= 2 * pre[i].radius) =>
            /\ post[i].radius <= post[i].position.x
            /\ post[i].position.x <= tableWidth - post[i].radius
            /\ post[i].radius <= post[i].position.y
            /\ post[i].position.y <= tableHeight - post[i].radius

\* C37: after every tick, every ball that was active at its start, one captured during
\* it included, has its center in [radius, width - radius] x [radius, height - radius],
\* on any table at least 2 * radius wide and high, however fast the ball moved.
C37_BetweenRails ==
    [][ /\ EngineTicked => BetweenRails(balls, balls', dimensions.width, dimensions.height)
        /\ SimIterate =>
                BetweenRails(simBalls, simBalls', simState.tableWidth, simState.tableHeight)
      ]_vars

\* step() has brought the cue ball, put down beyond the right rail, back onto it
C37_Witness ==
    /\ simPc = "idle"
    /\ Len(trace) = 1
    /\ trace[1] # << >>
    /\ balls[1].active
    /\ balls[1].position.x = dimensions.width - balls[1].radius
    /\ balls[1].velocity.x < 0

\* the circle of `pocket` reaches into the rectangle the rails keep the centers in:
\* the point of the rectangle nearest to its center is inside the circle
Reaches(pocket, radius, tableWidth, tableHeight) ==
    LET nearX == IF pocket.x < radius THEN radius
                 ELSE IF pocket.x > tableWidth - radius THEN tableWidth - radius
                 ELSE pocket.x
        nearY == IF pocket.y < radius THEN radius
                 ELSE IF pocket.y > tableHeight - radius THEN tableHeight - radius
                 ELSE pocket.y
    IN  InPocket(Vec(nearX, nearY), pocket)

\* what C38 says of one tick: `pre` and `post` are the balls before and after it and
\* `log` the calls it made for each, the last of them the test of the capturing pocket
CapturedWithinReach(pre, post, log, pockets, tableWidth, tableHeight) ==
    \A i \in 1..Len(pre) :
        (/\ pre[i].active /\ ~post[i].active
         /\ tableWidth >= 2 * pre[i].radius
         /\ tableHeight >= 2 * pre[i].radius) =>
            LET n == Len(log[i]) - 2
            IN  /\ n \in 1..Len(pockets)
                /\ InPocket(post[i].position, pockets[n])
                /\ Reaches(pockets[n], pre[i].radius, tableWidth, tableHeight)
                /\ (/\ tableWidth = CanonicalTable.width
                    /\ tableHeight = CanonicalTable.height
                    /\ pre[i].radius = BALL_RADIUS
                    /\ pockets[n].radius = CanonicalTable.pocketRadius) => n \in 1..4

\* C38: the pockets are tested after the rails, so a pocket captures a ball only if its
\* circle reaches into [radius, width - radius] x [radius, height - radius]; on the
\* canonical table the circles of the two side pockets do not, those of the four
\* corner pockets do, and every capture is by a corner pocket.
C38_OnlyCornersCapture ==
    [][ /\ EngineTicked =>
            CapturedWithinReach(balls, balls', trace', dimensions.pockets,
                                dimensions.width, dimensions.height)
        /\ SimIterate =>
            CapturedWithinReach(simBalls, simBalls', trace', simState.pockets,
                                simState.tableWidth, simState.tableHeight)
        /\ \A k \in 1..6 :
                Reaches(CreatePockets(CanonicalTable.width, CanonicalTable.height,
                                      CanonicalTable.pocketRadius)[k],
                        BALL_RADIUS, CanonicalTable.width, CanonicalTable.height)
                    <=> k \in 1..4
      ]_vars

\* step() has brought the cue ball, put down over the top side pocket, onto the top
\* rail, where none of the six pockets captured it
C38_Witness ==
    /\ simPc = "idle"
    /\ dimensions = TableInitialState
    /\ Len(trace) = 1
    /\ Len(trace[1]) = 2 + 6
    /\ balls[1].active
    /\ balls[1].position = Vec(500 * Scale, BALL_RADIUS)

\* no ball of `post` is faster than it was in `pre`
NoneFaster(pre, post) ==
    \A i \in 1..Len(pre) : SpeedSquared(post[i].velocity) <= SpeedSquared(pre[i].velocity)

\* C40: between shots the speed of every ball is non-increasing from tick to tick -
\* friction scales it down, a rail flips the sign of a component, the stopping rule and
\* a capture set it to zero; no tick makes a ball faster.
C40_NeverFaster ==
    [][ /\ EngineTicked => NoneFaster(balls, balls')
        /\ SimIterate => NoneFaster(simBalls, simBalls') ]_vars

\* the first tick of a run has slowed a rolling ball down
C40_Witness ==
    /\ simPc = "loop"
    /\ iterations = 1
    /\ \E i \in 1..Len(simBalls) :
            /\ simBalls[i].active
            /\ simBalls[i].velocity.x = TimesDecayFactor(simState.balls[i].velocity.x)
            /\ 0 < simBalls[i].velocity.x
            /\ simBalls[i].velocity.x < simState.balls[i].velocity.x

----------------------------------------------------------------------------
(* Properties of the rack, checked under Spec *)

\* C30: runPhysicsSimulation works on a deep copy - from its first tick to its return
\* the balls of its input state, their position and velocity objects included, are as
\* the caller passed them, while the local list it returns changes with every tick; and
\* step() never changes the list of balls it read from the store: what a tick changes
\* reaches the store through the dispatched updates only.
C30_WorksOnCopies ==
    [][ /\ (simPc # "idle" /\ simPc' # "idle") => simState' = simState
        /\ SimIterate =>
            /\ simState'.balls = simState.balls
            /\ simBalls' # simBalls
        /\ ~snapshotMutated'
        /\ EngineTicked => (balls' # balls /\ ~snapshotMutated')
      ]_vars

\* a run has returned: its input still holds the two balls as passed, active and moving,
\* while the returned list has the first pocketed and the second moved and slowed
C30_Witness ==
    /\ simPc = "done"
    /\ Len(simBalls) = 2
    /\ simState.balls[1].active
    /\ simState.balls[1].velocity = At(0 - 60, 0 - 60)
    /\ simState.balls[1].position = At(19, 19)
    /\ ~simBalls[1].active
    /\ simBalls[1].velocity = Zero
    /\ simBalls[1].position # simState.balls[1].position
    /\ simState.balls[2].velocity = At(100, 0)
    /\ simBalls[2].position.x > simState.balls[2].position.x
    /\ simBalls[2].velocity # simState.balls[2].velocity


\* C28: the rack initializeBalls(tableWidth, tableHeight) leaves - the initial state of
\* the store is the one for 1000 x 500 - is exactly one ball, the cue ball: id 0, active,
\* radius 11.25, velocity (0,0), on the head spot (tableWidth * 0.25, tableHeight * 0.5).
C28_RackAtHeadSpot ==
    [][ \A table \in TableInputs :
            InitializeBalls(table.width, table.height) =>
                /\ Len(balls') = 1
                /\ balls'[1].id = 0
                /\ balls'[1].type = "cue"
                /\ balls'[1].active
                /\ 4 * balls'[1].radius = 45 * Scale
                /\ balls'[1].velocity = Zero
                /\ 4 * balls'[1].position.x = table.width
                /\ 2 * balls'[1].position.y = table.height ]_vars

----------------------------------------------------------------------------
(* Properties of the table transform, checked under SpecTransform *)

\* the object as its constructor would leave it with the same screen, table and padding
Fresh(t) == NewTableTransform(t.screenWidth, t.screenHeight, t.tableDimensions, t.padding)

Getters == {"isPortrait", "getScale", "getTranslation", "getTransform",
            "getInverseTransform"}

\* what the getter `fn` computes on a new object
FreshResult(fn, t) ==
    CASE fn = "isPortrait" -> IsPortrait(Fresh(t)).result
      [] fn = "getScale" -> GetScale(Fresh(t)).result
      [] fn = "getTranslation" -> GetTranslation(Fresh(t)).result
      [] fn = "getTransform" -> GetTransform(Fresh(t)).result
      [] fn = "getInverseTransform" -> GetInverseTransform(Fresh(t)).result

\* every cached field that is not null holds what a new object would compute
CacheCoherent(t) ==
    /\ t.cachedIsPortrait # Null =>
            t.cachedIsPortrait[1] = FreshResult("isPortrait", t)
    /\ t.cachedScale # Null => t.cachedScale[1] = FreshResult("getScale", t)
    /\ t.cachedTranslationX # Null =>
            t.cachedTranslationX[1] = FreshResult("getTranslation", t).x
    /\ t.cachedTranslationY # Null =>
            t.cachedTranslationY[1] = FreshResult("getTranslation", t).y
    /\ t.cachedTransform # Null => t.cachedTransform[1] = FreshResult("getTransform", t)
    /\ t.cachedInverseTransform # Null =>
            t.cachedInverseTransform[1] = FreshResult("getInverseTransform", t)

\* C23: after any sequence of updateScreenSize, updateTableDimensions and getter calls,
\* each of isPortrait, getScale, getTranslation, getTransform and getInverseTransform
\* returns what a new TableTransform with the current screen size, table dimensions and
\* padding computes; no cached field is ever stale; and each of the two updates leaves
\* all six cached fields null together.
C23_CacheCoherent ==
    Constructed =>
        /\ call.fn \in Getters => call.result = FreshResult(call.fn, transform)
        /\ CacheCoherent(transform)
        /\ call.fn \in {"updateScreenSize", "updateTableDimensions"} =>
                transform = Fresh(transform)

\* updateScreenSize has turned the desktop screen with every field cached into the
\* tablet screen: all six fields are null again
C23_Witness ==
    /\ call.fn = "updateScreenSize"
    /\ call.before.screenWidth = 1920
    /\ call.before.cachedIsPortrait = <<FALSE>>
    /\ call.before.cachedScale # Null
    /\ call.before.cachedTranslationX # Null
    /\ call.before.cachedTranslationY # Null
    /\ call.before.cachedTransform # Null
    /\ call.before.cachedInverseTransform # Null
    /\ transform.screenWidth = 1080
    /\ transform.screenHeight = 1920
    /\ transform = Fresh(transform)

\* |p - q|, as toBeCloseTo measures it
Distance(p, q) == RAbs(RSub(p, q))

\* toBeCloseTo(expected, 1): closer than 0.05
Tolerance == Rat(5, 100)

\* C24: screenToTable(tableToScreen(p)) is p, well within the tolerance of the tests, for
\* every table point, in landscape and in portrait, whatever was cached before: the
\* inverse matrix undoes the forward matrix, translation and rotation included.
C24_RoundTrip ==
    call.fn = "roundTrip"
        => /\ RLess(Distance(call.result.x, Num(call.point[1])), Tolerance)
           /\ RLess(Distance(call.result.y, Num(call.point[2])), Tolerance)
           /\ call.screen = TableToScreenOf(Fresh(transform), Num(call.point[1]),
                                            Num(call.point[2])).result
           /\ transform.cachedTransform # Null
           /\ transform.cachedInverseTransform # Null

\* the portrait test: (750, 375) on the tablet screen went to a screen point off the
\* table point and came back
C24_Witness ==
    /\ call.fn = "roundTrip"
    /\ transform.screenWidth = 1080
    /\ transform.screenHeight = 1920
    /\ transform.cachedIsPortrait = <<TRUE>>
    /\ call.point = <<750, 375>>
    /\ call.screen # DOMPoint(Num(750), Num(375))
    /\ call.result = DOMPoint(Num(750), Num(375))

\* C25: isPortrait() is true exactly when screenWidth < screenHeight - a square screen
\* is landscape - and after updateScreenSize it answers for the new size.
C25_Orientation ==
    (Constructed /\ call.fn = "isPortrait")
        => /\ call.result = (transform.screenWidth < transform.screenHeight)
           /\ transform.screenWidth = transform.screenHeight => call.result = FALSE

\* isPortrait() has answered false for the square screen
C25_Witness ==
    /\ call.fn = "isPortrait"
    /\ transform.screenWidth = 1200
    /\ transform.screenHeight = 1200
    /\ call.result = FALSE
    /\ transform.cachedIsPortrait = <<FALSE>>

RLeq(p, q) == ~RLess(q, p)

\* (A, B) of C26: the table with its rails as the screen sees it, swapped in portrait
Footprint(t) ==
    LET w == t.tableDimensions.width + 2 * t.tableDimensions.railWidth
        h == t.tableDimensions.height + 2 * t.tableDimensions.railWidth
    IN  IF t.screenWidth < t.screenHeight THEN <<h, w>> ELSE <<w, h>>

\* min((sw - 2 padding) / A, (sh - 2 padding) / B)
FitScale(t) ==
    RMin(Rat(t.screenWidth - 2 * t.padding, Footprint(t)[1]),
         Rat(t.screenHeight - 2 * t.padding, Footprint(t)[2]))

Canonical(t, screenWidth, screenHeight) ==
    /\ t.screenWidth = screenWidth
    /\ t.screenHeight = screenHeight
    /\ t.tableDimensions = StandardTableDimensions
    /\ t.padding = DefaultPadding

PortraitToScreen ==
    Constructed /\ call.fn = "tableToScreen" /\ transform.screenWidth < transform.screenHeight

\* C27: in portrait the forward transform shows the table rotated 90 degrees clockwise -
\* the left edge of the table is at the top of the screen and the right edge at the
\* bottom (a smaller table x is a smaller screen y), the top edge is on the right and the
\* bottom edge on the left.
C27_PortraitClockwise ==
    PortraitToScreen =>
        LET x == call.point[1]
            y == call.point[2]
            width == transform.tableDimensions.width
            height == transform.tableDimensions.height
            middleX == Rat(transform.screenWidth, 2)
            middleY == Rat(transform.screenHeight, 2)
        IN  /\ 2 * x < width => RLess(call.result.y, middleY)
            /\ 2 * x > width => RLess(middleY, call.result.y)
            /\ 2 * y < height => RLess(middleX, call.result.x)
            /\ 2 * y > height => RLess(call.result.x, middleX)

====
